---- MODULE Spec2Model ----
(***************************************************************************)
(* Model of the kubernetes-mesos scheduler core: the perishable offer       *)
(* registry (pkg/offers/offers.go) and the scheduler plugin                 *)
(* (pkg/scheduler/plugin.go), and of the executor (package executor).       *)
(***************************************************************************)
EXTENDS Integers, Sequences, FiniteSets, TLC

\* ---------------------------------------------------------------- bounds
MaxTasks == 2         \* task ids handed out by createPodTask
MaxListeners == 2     \* listener objects created by Listen
MaxUid == 2           \* uids a pod name goes through (re-creation under the same name)
MaxKills == 2         \* killTask calls counted per task
MaxAcquired == 2      \* won Acquire calls counted per offer; the count stays there
MaxConts == 2         \* launch continuations (goroutines started by LaunchTask) alive at once
OutgoingCap == 2      \* capacity of the executor's outgoing channel

OfferIds == {"o1", "o2"}
PodNames == {"p1", "p2"}
TaskIds == 1..MaxTasks
ListenerIds == 1..MaxListeners
Callers == {"ager", "driver"}     \* goroutines that may run offerStorage.Delete
\* resources: a pod fits an offer when the offer has at least the cpus the pod asks for
OfferCpu == [o \in OfferIds |-> IF o = "o1" THEN 1 ELSE 2]
PodCpu == [p \in PodNames |-> IF p = "p1" THEN 1 ELSE 2]

\* ------------------------------------------------------ program constants
\* Durations are in clock ticks. The model keeps, for every deadline, the ticks left
\* until it (negative once it has passed) instead of the wall clock.
offerListenerMaxAge == 12
offerIdCacheTTL == 1
deferredDeclineTtlFactor == 2
TTL == 1              \* RegistryConfig.TTL
LingerTTLs == {0, 1}  \* RegistryConfig.LingerTTL: no lingering, lingering
defaultDuration == 1  \* podBackoff.defaultDuration
maxDuration == 60     \* podBackoff.maxDuration

None == "none"

VARIABLES
    lingerTTL,    \* RegistryConfig.LingerTTL (fixed at construction)
    offers,       \* offerStorage.offers: id -> "none" | "live" | "expired"
    expiration,   \* liveOffer.expiration, per offer id: ticks left, -1 once time.Now() is after it
    acquired,     \* liveOffer.acquired, per offer id (the object outlives its registry entry)
    offersAcquired, \* metrics.OffersAcquired: Acquire calls that won, per offer id
    delayed,      \* offerStorage.delayed: set of [kind, id, left]
    declined,     \* number of DeclineOffer calls, per offer id
    timers,       \* pending time.AfterFunc closures of Delete: set of [id, left]
    del,          \* per caller: position inside offerStorage.Delete
    added,        \* offer ids the driver has delivered so far
    pods,         \* pod names the control plane uses in this run (fixed)
    offerPool,    \* offer ids the resource manager hands out in this run (fixed)
    store,        \* queuer.podUpdates: name -> [tag, uid, host] (last event, stored pod)
    updq,         \* queuer.podUpdates: names waiting to be popped, in order
    updates,      \* the channel feeding deleter.Run: DELETE entries [name, uid]
    podQueue,     \* queuer.podQueue: set of [name, uid, left, notify], unique by uid
    qlock,        \* queuer.lock: "none" | "run" | "yield"
    run,          \* the enqueue loop of queuer.Run: [pc, name, uid, host]
    sl,           \* the plugin's scheduling loop: NextPod, Schedule, Bind, Error
    slock,        \* the scheduler lock, when held across steps: "none" | "bind" | "read"
    tasks,        \* taskRegistry: task id -> task record or NoTask
    podToTask,    \* taskRegistry: pod key -> task id, 0 when none
    nextTask,     \* next task id of createPodTask
    backoff,      \* podBackoff.perPodBackoff: pod key -> [backoff, old] (backoffEntry)
    launchOk,     \* successful driver.LaunchTasks calls, per offer id
    killed,       \* driver.KillTask calls, per task id
    lobj,         \* offerListener objects: [pod, task, age, saw, closed]
    nextL,        \* next listener object of Listen
    listeners,    \* offerStorage.listeners: pod key -> queued listener object, 0 when none
    notifier,     \* the notification loop: [pc, l]
    cache,        \* stringsCache: [left, cached, filled, version]
    taskInfos,    \* TaskInfo messages the resource manager sends in this run (fixed)
    state,        \* KubernetesExecutor.state
    done,         \* KubernetesExecutor.done: is the channel closed
    panicked,     \* "none", or the message of the panic that ended the process
    ktasks,       \* KubernetesExecutor.tasks: task id -> [found, podName]
    kpods,        \* KubernetesExecutor.pods: the keys (pod full names)
    updateChan,   \* the last PodUpdate sent on updateChan: [seq, pods], seq flips per send
    outgoing,     \* KubernetesExecutor.outgoing: queued status closures, in order
    conn,         \* Registered / Reregistered / Disconnected past its isDone check
    lt,           \* the LaunchTask callback in progress: [pc, id, pod]
    kt,           \* the KillTask callback in progress: [pc, id]
    sd,           \* the Shutdown callback in progress
    cont,         \* launch continuations: [pc, id, pod, expired]
    pump,         \* sendLoop: [pc, sender]
    sent          \* the last closure sendLoop invoked: [status, result]

regVars == <<lingerTTL, offers, expiration, acquired, offersAcquired, delayed, declined, timers,
            del, added>>
envVars == <<pods, offerPool>>
qVars == <<store, updq, updates, podQueue, qlock, run>>
schedVars == <<sl, slock, tasks, podToTask, nextTask, backoff, launchOk, killed>>
lisVars == <<lobj, nextL, listeners, notifier, cache>>
execVars == <<taskInfos, state, done, panicked, ktasks, kpods, updateChan, outgoing,
             conn, lt, kt, sd, cont, pump, sent>>
vars == <<regVars, envVars, qVars, schedVars, lisVars, execVars>>

\* ------------------------------------------------------------ perishables
\* liveOffer.HasExpired / expiredOffer.HasExpired, for the object of the given kind
HasExpired(kind, o) == IF kind = "live" THEN expiration[o] < 0 ELSE TRUE

\* liveOffer.Details / expiredOffer.Details: is the payload non-nil
HasDetails(kind) == kind = "live"

\* an Acquire that succeeds whatever the flag holds
AcquireAlwaysWins(kind, o) == kind = "live"

\* liveOffer.Acquire / expiredOffer.Acquire: does the compare-and-swap 0 -> 1 win
AcquireWins(kind, o) == kind = "live" /\ acquired[o] = 0

\* an Acquire that flips the flag instead of comparing it
AcquireToggles(kind, o) == IF kind = "live" THEN [acquired EXCEPT ![o] = 1 - @] ELSE acquired

\* the acquired flag after Acquire() on the object
AfterAcquire(kind, o) == IF kind = "live" THEN [acquired EXCEPT ![o] = 1] ELSE acquired

\* a Release that leaves the flag as it is
NoRelease(acq, o) == acq

\* the acquired flag after Release() on the live object of offer o
AfterRelease(acq, o) == [acq EXCEPT ![o] = 0]

\* offerStorage.Get: the kind of the object stored under the id, None when absent
Get(o) == offers[o]

\* offers.Expired(offerId, hostname, s.LingerTTL), as queued in s.delayed
ExpiredItem(o) == [kind |-> "expired", id |-> o, left |-> lingerTTL]
LiveItem(o) == [kind |-> "live", id |-> o, left |-> 0]

\* an expireOffer that never lets an offer linger
ExpireOfferRemoves(kind, o, reg) == IF HasDetails(kind) THEN [reg EXCEPT ![o] = None] ELSE reg

\* offerStorage.expireOffer(offer) for an object of the given kind: new registry and delay queue
ExpireOfferStore(kind, o, reg) ==
    IF HasDetails(kind)
    THEN IF lingerTTL > 0 THEN [reg EXCEPT ![o] = "expired"] ELSE [reg EXCEPT ![o] = None]
    ELSE reg

ExpireOfferDelayed(kind, o, dq) ==
    IF HasDetails(kind) /\ lingerTTL > 0 THEN dq \cup {ExpiredItem(o)} ELSE dq

IdleDel == [pc |-> "idle", id |-> None, kind |-> None]

\* ------------------------------------------------------------- pod tasks
NoTask == [pod |-> None, uid |-> 0, offer |-> None, launched |-> FALSE, deleted |-> FALSE,
           state |-> "Unknown"]
NoPod == [tag |-> None, uid |-> 0, host |-> FALSE]
IdleRun == [pc |-> "idle", name |-> None, uid |-> 0, host |-> FALSE]
IdleLoop == [pc |-> "next", name |-> None, uid |-> 0, err |-> None, from |-> None, called |-> FALSE]
\* backoffEntry: the delay of the next failure (0: no entry for the pod) and whether
\* lastUpdate is more than maxDuration ago
NoEntry == [backoff |-> 0, old |-> FALSE]
NoListener == [pod |-> None, task |-> 0, age |-> 0, saw |-> 0, closed |-> 0]

\* podtask.New: the record createPodTask returns for a pod
NewTask(p, u) == [pod |-> p, uid |-> u, offer |-> None, launched |-> FALSE, deleted |-> FALSE,
                  state |-> "Pending"]

\* taskRegistry.Get: (task, state); an unregistered id has state Unknown
getTask(t) == tasks[t]

\* taskRegistry.TaskForPod: ok is taskForPod(p) # 0
taskForPod(p) == podToTask[p]

\* podtask.T.HasAcceptedOffer
HasAcceptedOffer(task) == task.offer # None

\* podtask.T.AcceptOffer: does the offer fit the pod
AcceptOffer(p, o) == PodCpu[p] <= OfferCpu[o]

\* podtask.T.ClearTaskInfo
ClearTaskInfo(task) == [task EXCEPT !.offer = None]

\* HistoricalFIFO.Poll: was ev the last event recorded for the key
Poll(p, ev) == store[p].tag = ev

\* ---------------------------------------------------------- executor data
ContIds == 1..MaxConts
\* no callback of that kind in progress
IdleCall == [pc |-> "idle", id |-> 0, pod |-> None]
\* a free continuation slot
NoCont == [pc |-> None, id |-> 0, pod |-> None, expired |-> FALSE]
\* the executor's config source name
sourcename == "mesos"
\* kubelet.GetPodFullName: pod name plus the config source annotation
GetPodFullName(pod) == <<pod, sourcename>>
\* no record in KubernetesExecutor.tasks
NoKuberTask == [found |-> FALSE, podName |-> <<>>]
\* the kuberTask LaunchTask records: podName is "" (the empty string) for now
NewKuberTask == [found |-> TRUE, podName |-> <<>>]
\* no status (no closure in sendLoop's hands, nothing sent yet)
NoStatus == [id |-> 0, state |-> None, message |-> None]
\* newStatus
newStatus(id, taskState, message) == [id |-> id, state |-> taskState, message |-> message]

\* ------------------------------------------------------------------ Init
\* executor.New: the executor after construction; TI are the TaskInfo messages of the run
New(TI) ==
    /\ taskInfos = TI
    /\ state = "disconnected"
    /\ done = FALSE
    /\ panicked = None
    /\ ktasks = [t \in TaskIds |-> NoKuberTask]
    /\ kpods = {}
    /\ updateChan = [seq |-> 0, pods |-> {}]
    /\ outgoing = <<>>
    /\ conn = None
    /\ lt = IdleCall
    /\ kt = IdleCall
    /\ sd = "idle"
    /\ cont = [c \in ContIds |-> NoCont]
    /\ pump = [pc |-> "select", sender |-> NoStatus]
    /\ sent = [status |-> NoStatus, result |-> None]

\* the scheduler side after construction, for the pods P and the offers O of the run
NewPluginConfig(P, O) ==
    /\ pods = P
    /\ offerPool = O
    /\ lingerTTL \in LingerTTLs
    /\ offers = [o \in OfferIds |-> None]
    /\ expiration = [o \in OfferIds |-> TTL]
    /\ acquired = [o \in OfferIds |-> 0]
    /\ offersAcquired = [o \in OfferIds |-> 0]
    /\ delayed = {}
    /\ declined = [o \in OfferIds |-> 0]
    /\ timers = {}
    /\ del = [c \in Callers |-> IdleDel]
    /\ added = {}
    /\ store = [p \in PodNames |-> NoPod]
    /\ updq = <<>>
    /\ updates = <<>>
    /\ podQueue = {}
    /\ qlock = None
    /\ run = IdleRun
    /\ sl = IdleLoop
    /\ slock = None
    /\ tasks = [t \in TaskIds |-> NoTask]
    /\ podToTask = [p \in PodNames |-> 0]
    /\ nextTask = 1
    /\ backoff = [p \in PodNames |-> NoEntry]
    /\ launchOk = [o \in OfferIds |-> 0]
    /\ killed = [t \in TaskIds |-> 0]
    /\ lobj = [l \in ListenerIds |-> NoListener]
    /\ nextL = 1
    /\ listeners = [p \in PodNames |-> 0]
    /\ notifier = [pc |-> "idle", l |-> 0]
    /\ cache = [left |-> -1, cached |-> {}, filled |-> FALSE, version |-> 0]

InitWith(P, O) == NewPluginConfig(P, O) /\ New({})

Init == InitWith({"p1", "p2"}, {"o2"})

\* --------------------------------------------------------------- actions
\* liveOffer.Acquire: metrics.OffersAcquired is incremented when the compare-and-swap won
OffersAcquiredInc ==
    [o \in OfferIds |-> IF acquired[o] = 0 /\ acquired'[o] = 1 /\ offersAcquired[o] < MaxAcquired
                        THEN offersAcquired[o] + 1 ELSE offersAcquired[o]]

Down(n, floor) == IF n > floor THEN n - 1 ELSE floor

\* one clock tick: every deadline comes one tick closer
Tick ==
    /\ expiration' = [o \in OfferIds |-> IF o \in added THEN Down(expiration[o], -1)
                                         ELSE expiration[o]]
    /\ delayed' = {[i EXCEPT !.left = Down(@, 0)] : i \in delayed}
    /\ timers' = {[t EXCEPT !.left = Down(@, 0)] : t \in timers}
    /\ podQueue' = {[e EXCEPT !.left = Down(@, 0)] : e \in podQueue}
    /\ cache' = [cache EXCEPT !.left = Down(@, -1)]
    /\ UNCHANGED <<lingerTTL, offers, acquired, declined, del, added>>
    /\ UNCHANGED <<store, updq, updates, qlock, run>>
    /\ UNCHANGED <<lobj, nextL, listeners, notifier>>
    /\ UNCHANGED <<envVars, schedVars>>
    /\ offersAcquired' = OffersAcquiredInc
    /\ UNCHANGED execVars

\* offerStorage.Add for one offer the driver delivers (offer ids are never reused)
Add(o) ==
    /\ o \in offerPool
    /\ o \notin added
    /\ added' = added \cup {o}
    /\ offers' = [offers EXCEPT ![o] = "live"]
    /\ expiration' = [expiration EXCEPT ![o] = TTL]
    /\ acquired' = [acquired EXCEPT ![o] = 0]
    /\ delayed' = delayed \cup {LiveItem(o)}
    /\ UNCHANGED <<lingerTTL, declined, timers, del>>
    /\ UNCHANGED <<envVars, qVars, schedVars, lisVars>>
    /\ offersAcquired' = OffersAcquiredInc
    /\ UNCHANGED execVars

\* offerStorage.Delete, first step: s.Get(offerId); the caller's position afterwards
AfterGet(o) == IF Get(o) = None THEN IdleDel ELSE [pc |-> "got", id |-> o, kind |-> Get(o)]

\* a Delete that declines whether or not the offer is claimed
DeclinesAlways(kind, o) == HasDetails(kind)

\* offerStorage.Delete: is the offer declined at once (it was not yet claimed)
DeclinesNow(kind, o) == HasDetails(kind) /\ AcquireWins(kind, o)

\* offerStorage.Delete: is the decline deferred (someone holds a claim)
DefersDecline(kind, o) == HasDetails(kind) /\ ~AcquireWins(kind, o)

\* offerStorage.Delete, second step: Acquire, then decline now or arm the deferred decline
DeleteAcquire(c) ==
    LET o == del[c].id
        kind == del[c].kind
    IN /\ del[c].pc = "got"
       /\ acquired' = AfterAcquire(kind, o)
       /\ declined' = IF DeclinesNow(kind, o) THEN [declined EXCEPT ![o] = @ + 1] ELSE declined
       /\ timers' = IF DefersDecline(kind, o)
                    THEN timers \cup {[id |-> o, left |-> deferredDeclineTtlFactor * TTL]}
                    ELSE timers
       /\ del' = [del EXCEPT ![c].pc = "expire"]
       /\ UNCHANGED <<lingerTTL, offers, expiration, delayed, added>>
       /\ UNCHANGED <<envVars, qVars, schedVars, lisVars>>
       /\ offersAcquired' = OffersAcquiredInc
       /\ UNCHANGED execVars

\* offerStorage.Delete, last step: s.expireOffer(offer)
DeleteExpire(c) ==
    LET o == del[c].id
        kind == del[c].kind
    IN /\ del[c].pc = "expire"
       /\ offers' = ExpireOfferStore(kind, o, offers)
       /\ delayed' = ExpireOfferDelayed(kind, o, delayed)
       /\ del' = [del EXCEPT ![c] = IdleDel]
       /\ UNCHANGED <<lingerTTL, expiration, acquired, declined, timers, added>>
       /\ UNCHANGED <<envVars, qVars, schedVars, lisVars>>
       /\ offersAcquired' = OffersAcquiredInc
       /\ UNCHANGED execVars

\* a deferred decline that declines whether or not the claim can be taken
DeferredDeclinesAlways(o) == TRUE

\* the closure Delete hands to time.AfterFunc: decline if the claim can be taken now
DeferredDeclines(o) == AcquireWins("live", o)

DeferredDecline(t) ==
    /\ t \in timers
    /\ t.left = 0
    /\ timers' = timers \ {t}
    /\ acquired' = AfterAcquire("live", t.id)
    /\ declined' = IF DeferredDeclines(t.id) THEN [declined EXCEPT ![t.id] = @ + 1] ELSE declined
    /\ UNCHANGED <<lingerTTL, offers, expiration, delayed, del, added>>
    /\ UNCHANGED <<envVars, qVars, schedVars, lisVars>>
    /\ offersAcquired' = OffersAcquiredInc
    /\ UNCHANGED execVars

\* the driver's OfferRescinded callback entering offerStorage.Delete
RescindOffer(o) ==
    /\ o \in added
    /\ del["driver"].pc = "idle"
    /\ del' = [del EXCEPT !["driver"] = AfterGet(o)]
    /\ UNCHANGED <<lingerTTL, offers, expiration, acquired, delayed, declined, timers, added>>
    /\ UNCHANGED <<envVars, qVars, schedVars, lisVars>>
    /\ offersAcquired' = OffersAcquiredInc
    /\ UNCHANGED execVars

\* DelayQueue.Pop: an item whose deadline has come
Due(item) ==
    /\ item \in delayed
    /\ IF item.kind = "live" THEN expiration[item.id] <= 0 ELSE item.left = 0

\* offerStorage.ageOffers, one round of the aging loop
ageOffers(item) ==
    /\ del["ager"].pc = "idle"
    /\ Due(item)
    /\ IF HasDetails(item.kind) /\ ~HasExpired(item.kind, item.id)
       THEN \* timed out early: offer.addTo(s.delayed)
            UNCHANGED <<delayed, offers, del>>
       ELSE IF item.kind = "live"
            THEN \* liveOffer.age: s.Delete(to.uid())
                 /\ delayed' = delayed \ {item}
                 /\ del' = [del EXCEPT !["ager"] = AfterGet(item.id)]
                 /\ UNCHANGED offers
            ELSE \* expiredOffer.age: s.offers.Delete(e.id)
                 /\ delayed' = delayed \ {item}
                 /\ offers' = [offers EXCEPT ![item.id] = None]
                 /\ UNCHANGED del
    /\ UNCHANGED <<lingerTTL, expiration, acquired, declined, timers, added>>
    /\ UNCHANGED <<envVars, qVars, schedVars, lisVars>>
    /\ offersAcquired' = OffersAcquiredInc
    /\ UNCHANGED execVars

\* ------------------------------------------------------- pod update store
SeqWithout(q, x) == SelectSeq(q, LAMBDA y : y # x)
InSeq(q, x) == \E i \in 1..Len(q) : q[i] = x
Enqueued(q, x) == IF InSeq(q, x) THEN q ELSE Append(q, x)

\* podStoreAdapter.Add: the reflector reports a pod created under name p
AddPod(p) ==
    /\ p \in pods
    /\ store[p].tag \in {None, "DELETE"}
    /\ store[p].uid < MaxUid
    /\ store' = [store EXCEPT ![p] = [tag |-> "ADD", uid |-> store[p].uid + 1, host |-> FALSE]]
    /\ updq' = Enqueued(updq, p)
    /\ UNCHANGED <<updates, podQueue, qlock, run>>
    /\ UNCHANGED <<regVars, envVars, schedVars, lisVars>>
    /\ UNCHANGED execVars

\* podStoreAdapter.Update: the reflector reports a change of pod p; the control plane
\* fills in the host only once the pod's task has been launched
UpdatePod(p, setHost) ==
    /\ store[p].tag \in {"ADD", "UPDATE", "POP"}
    /\ setHost => /\ ~store[p].host
                  /\ podToTask[p] # 0
                  /\ tasks[podToTask[p]].launched
                  /\ tasks[podToTask[p]].uid = store[p].uid
    /\ store' = [store EXCEPT ![p].tag = "UPDATE", ![p].host = @ \/ setHost]
    /\ updq' = Enqueued(updq, p)
    /\ UNCHANGED <<updates, podQueue, qlock, run>>
    /\ UNCHANGED <<regVars, envVars, schedVars, lisVars>>
    /\ UNCHANGED execVars

\* podStoreAdapter.Delete: the reflector reports pod p deleted; the DELETE entry goes to
\* the deleter's channel
DeletePod(p) ==
    /\ store[p].tag \in {"ADD", "UPDATE", "POP"}
    /\ store' = [store EXCEPT ![p].tag = "DELETE"]
    /\ updq' = SeqWithout(updq, p)
    /\ updates' = Append(updates, [name |-> p, uid |-> store[p].uid])
    /\ UNCHANGED <<podQueue, qlock, run>>
    /\ UNCHANGED <<regVars, envVars, schedVars, lisVars>>
    /\ UNCHANGED execVars

\* ---------------------------------------------------------------- queuer
\* DelayFIFO.Delete(uid)
Dequeued(pq, u, p) == {e \in pq : ~(e.uid = u /\ e.name = p)}

HasEntry(pq, u, p) == \E e \in pq : e.uid = u /\ e.name = p

\* DelayFIFO.Offer / Add with ReplaceExisting
OfferReplace(pq, e) == Dequeued(pq, e.uid, e.name) \cup {e}

\* DelayFIFO.Offer / Add with KeepExisting
OfferKeep(pq, e) == IF HasEntry(pq, e.uid, e.name) THEN pq ELSE pq \cup {e}

\* queuer.Run, the loop's podUpdates.Await returning a pod
RunAwait ==
    /\ run.pc = "idle"
    /\ qlock \in {None, "run"}
    /\ updq # <<>>
    /\ LET p == Head(updq)
       IN /\ store' = [store EXCEPT ![p].tag = "POP"]
          /\ run' = [pc |-> "popped", name |-> p, uid |-> store[p].uid, host |-> store[p].host]
    /\ updq' = Tail(updq)
    /\ qlock' = "run"
    /\ UNCHANGED <<updates, podQueue>>
    /\ UNCHANGED <<regVars, envVars, schedVars, lisVars>>
    /\ UNCHANGED execVars

\* queuer.Run, Await timed out: deltaCond.Wait gives up the lock
RunWait ==
    /\ run.pc = "idle"
    /\ qlock = "run"
    /\ updq = <<>>
    /\ qlock' = None
    /\ UNCHANGED <<store, updq, updates, podQueue, run>>
    /\ UNCHANGED <<regVars, envVars, schedVars, lisVars>>
    /\ UNCHANGED execVars

\* queuer.Run, the popped pod: dequeue it when it has a host, else offer it for scheduling
RunEnqueue ==
    /\ run.pc = "popped"
    /\ podQueue' = IF run.host
                   THEN Dequeued(podQueue, run.uid, run.name)
                   ELSE OfferReplace(podQueue, [name |-> run.name, uid |-> run.uid,
                                                left |-> 0, notify |-> 0])
    /\ run' = IdleRun
    /\ UNCHANGED <<store, updq, updates, qlock>>
    /\ UNCHANGED <<regVars, envVars, schedVars, lisVars>>
    /\ UNCHANGED execVars

\* DelayFIFO.Await: the entry at the head (earliest deadline) once it is due or its
\* break-out channel is closed
Poppable(e) ==
    /\ e \in podQueue
    /\ \A other \in podQueue : e.left <= other.left
    /\ \/ e.left = 0
       \/ e.notify # 0 /\ lobj[e.notify].closed > 0

\* queuer.yield, podQueue.Await returning an entry
YieldAwait(e) ==
    /\ sl.pc = "next"
    /\ qlock \in {None, "yield"}
    /\ Poppable(e)
    /\ podQueue' = podQueue \ {e}
    /\ sl' = [IdleLoop EXCEPT !.pc = "yielded", !.name = e.name, !.uid = e.uid]
    /\ qlock' = "yield"
    /\ UNCHANGED <<store, updq, updates, run>>
    /\ UNCHANGED <<slock, tasks, podToTask, nextTask, backoff, launchOk, killed>>
    /\ UNCHANGED <<regVars, envVars, lisVars>>
    /\ UNCHANGED execVars

\* queuer.yield, Await timed out: unscheduledCond.Wait gives up the lock
YieldWait ==
    /\ sl.pc = "next"
    /\ qlock = "yield"
    /\ ~\E e \in podQueue : Poppable(e)
    /\ qlock' = None
    /\ UNCHANGED <<store, updq, updates, podQueue, run>>
    /\ UNCHANGED <<regVars, envVars, schedVars, lisVars>>
    /\ UNCHANGED execVars

\* a yield that returns whatever it popped
YieldReturnsAny(p) == TRUE

\* queuer.yield: is the popped pod returned to the scheduling loop
YieldReturns(p) == Poll(p, "POP")

\* queuer.yield, the popped entry: return it, or skip a transitioning pod and loop
YieldCheck ==
    /\ sl.pc = "yielded"
    /\ IF YieldReturns(sl.name)
       THEN /\ sl' = [sl EXCEPT !.pc = "sched"]
            /\ qlock' = None
       ELSE /\ sl' = IdleLoop
            /\ UNCHANGED qlock
    /\ UNCHANGED <<store, updq, updates, podQueue, run>>
    /\ UNCHANGED <<slock, tasks, podToTask, nextTask, backoff, launchOk, killed>>
    /\ UNCHANGED <<regVars, envVars, lisVars>>
    /\ UNCHANGED execVars

\* ------------------------------------------------------------- scheduler
Registered(t) == tasks[t].pod # None

\* a Walk that passes every offer of the registry
WalkPassesAll(o) == Get(o) # None

\* the placement function (FCFS): the offers Walk may pass that the task accepts and
\* whose Acquire wins; List yields them in no particular order
WalkPasses(o) == Get(o) # None /\ ~HasExpired(Get(o), o)

PlacementChoices(p) == {o \in OfferIds : WalkPasses(o) /\ AcceptOffer(p, o) /\ AcquireWins(Get(o), o)}

\* a Schedule that registers a fresh task whatever taskForPod finds
AlwaysFreshTask(p) == TRUE

\* kubeScheduler.Schedule: does the pod need a fresh task (taskForPod found none)
NeedsFreshTask(p) == taskForPod(p) = 0

\* kubeScheduler.Schedule: the error returned before placement is tried, None when
\* Schedule goes on to doSchedule
ScheduleRefusal(p, u) ==
    IF NeedsFreshTask(p)
    THEN IF Poll(p, "DELETE") THEN "noSuchPod" ELSE None
    ELSE LET task == getTask(taskForPod(p))
         IN IF task.state # "Pending" THEN "notPending"
            ELSE IF u # task.uid THEN "outOfSync"
            ELSE IF task.launched THEN "alreadyLaunched"
            ELSE None

\* an assignment check that lets every offer through
AssignmentAlwaysOk(task, o) == TRUE

\* kubeScheduler.doSchedule: may the offer placement returned be assigned to the task
AssignmentOk(task, o) == ~(task.offer # None /\ task.offer # o)

\* kubeScheduler.Schedule with doSchedule; o is the offer placement acquired, None when
\* it found none
Schedule(o) ==
    LET p == sl.name
        refusal == ScheduleRefusal(p, sl.uid)
        fresh == NeedsFreshTask(p)
        t == IF fresh THEN nextTask ELSE taskForPod(p)
        task == IF fresh THEN NewTask(p, sl.uid) ELSE getTask(t)
    IN /\ sl.pc = "sched"
       /\ slock = None
       /\ IF refusal # None
          THEN /\ o = None
               /\ sl' = [sl EXCEPT !.pc = "error", !.err = refusal, !.from = "Schedule"]
               /\ UNCHANGED <<tasks, podToTask, nextTask, acquired>>
          ELSE /\ fresh => nextTask <= MaxTasks
               /\ IF PlacementChoices(p) = {} THEN o = None ELSE o \in PlacementChoices(p)
               /\ nextTask' = IF fresh THEN nextTask + 1 ELSE nextTask
               /\ podToTask' = [podToTask EXCEPT ![p] = t]
               /\ IF o = None
                  THEN /\ tasks' = [tasks EXCEPT ![t] = task]
                       /\ sl' = [sl EXCEPT !.pc = "error", !.err = "noSuitableOffers",
                                           !.from = "Schedule"]
                       /\ UNCHANGED acquired
                  ELSE /\ acquired' = AfterAcquire(Get(o), o)
                       /\ IF AssignmentOk(task, o)
                          THEN /\ tasks' = [tasks EXCEPT ![t] = [task EXCEPT !.offer = o]]
                               /\ sl' = [sl EXCEPT !.pc = "bind", !.err = None,
                                                   !.from = "Schedule"]
                          ELSE /\ tasks' = [tasks EXCEPT ![t] = task]
                               /\ sl' = [sl EXCEPT !.pc = "error", !.err = "notIdempotent",
                                                   !.from = "Schedule"]
       /\ UNCHANGED <<slock, backoff, launchOk, killed>>
       /\ UNCHANGED <<lingerTTL, offers, expiration, delayed, declined, timers, del, added>>
       /\ UNCHANGED <<envVars, qVars, lisVars>>
       /\ offersAcquired' = OffersAcquiredInc
       /\ UNCHANGED execVars

\* a Bind that looks for the task and not at its state
BindRefusalAnyState(p) == IF taskForPod(p) = 0 THEN "noSuchPod" ELSE None

\* binder.Bind: the error it returns without calling bind, None when the task is pending
BindRefusal(p) ==
    IF taskForPod(p) = 0 THEN "noSuchPod"
    ELSE IF getTask(taskForPod(p)).state # "Pending" THEN "noSuchPod"
    ELSE None

\* a validity check that passes every offer
OfferAlwaysValid(o) == TRUE

\* binder.bind: is the accepted offer still in the registry and not expired
OfferStillValid(o) == Get(o) # None /\ ~HasExpired(Get(o), o)

\* binder.Bind and the first half of binder.bind, up to the offer validity check
BindCheck ==
    LET p == sl.name
        t == taskForPod(p)
        task == getTask(t)
    IN /\ sl.pc = "bind"
       /\ slock = None
       /\ IF BindRefusal(p) # None
          THEN /\ sl' = [sl EXCEPT !.pc = "error", !.err = BindRefusal(p), !.from = "Bind"]
               /\ UNCHANGED <<tasks, acquired, slock>>
          ELSE IF ~HasAcceptedOffer(task)
          THEN /\ sl' = [sl EXCEPT !.pc = "error", !.err = "noAcceptedOffer", !.from = "Bind"]
               /\ UNCHANGED <<tasks, acquired, slock>>
          ELSE IF ~OfferStillValid(task.offer)
          THEN /\ acquired' = AfterRelease(acquired, task.offer)
               /\ tasks' = [tasks EXCEPT ![t] = ClearTaskInfo(task)]
               /\ sl' = [sl EXCEPT !.pc = "error", !.err = "expiredOffer", !.from = "Bind"]
               /\ UNCHANGED slock
          ELSE /\ sl' = [sl EXCEPT !.pc = "launch"]
               /\ slock' = "bind"
               /\ UNCHANGED <<tasks, acquired>>
       /\ UNCHANGED <<podToTask, nextTask, backoff, launchOk, killed>>
       /\ UNCHANGED <<lingerTTL, offers, expiration, delayed, declined, timers, del, added>>
       /\ UNCHANGED <<envVars, qVars, lisVars>>
       /\ offersAcquired' = OffersAcquiredInc
       /\ UNCHANGED execVars

\* a bind that leaves the registry alone after the launch
NeverInvalidates == FALSE

\* binder.bind on a successful launch: is the offer invalidated in the registry
InvalidatesOnLaunch == TRUE

\* the second half of binder.bind: prepareTaskForLaunch, launchTask, Invalidate
BindLaunch(outcome) ==
    LET p == sl.name
        t == taskForPod(p)
        task == getTask(t)
        o == task.offer
    IN /\ sl.pc = "launch"
       /\ IF outcome = "ok"
          THEN /\ launchOk' = [launchOk EXCEPT ![o] = @ + 1]
               /\ IF InvalidatesOnLaunch
                  THEN \* offerStorage.invalidateOne
                       /\ acquired' = IF Get(o) # None THEN AfterAcquire(Get(o), o) ELSE acquired
                       /\ offers' = IF Get(o) # None THEN ExpireOfferStore(Get(o), o, offers)
                                    ELSE offers
                       /\ delayed' = IF Get(o) # None THEN ExpireOfferDelayed(Get(o), o, delayed)
                                     ELSE delayed
                  ELSE UNCHANGED <<acquired, offers, delayed>>
               /\ tasks' = [tasks EXCEPT ![t].launched = TRUE]
               /\ sl' = [sl EXCEPT !.pc = "next", !.err = None, !.from = "Bind", !.called = TRUE]
          ELSE /\ acquired' = AfterRelease(acquired, o)
               /\ tasks' = [tasks EXCEPT ![t] = ClearTaskInfo(task)]
               /\ sl' = [sl EXCEPT !.pc = "error", !.err = outcome, !.from = "Bind",
                                   !.called = (outcome = "launchFail")]
               /\ UNCHANGED <<launchOk, offers, delayed>>
       /\ slock' = None
       /\ UNCHANGED <<podToTask, nextTask, backoff, killed>>
       /\ UNCHANGED <<lingerTTL, expiration, declined, timers, del, added>>
       /\ UNCHANGED <<envVars, qVars, lisVars>>
       /\ offersAcquired' = OffersAcquiredInc
       /\ UNCHANGED execVars

\* plugin.Config.NextPod as the scheduling loop sees it: queuer.yield hands over some
\* pod of the control plane (first incarnation of the name)
NextPod(p) ==
    /\ sl.pc = "next"
    /\ p \in pods
    /\ sl' = [IdleLoop EXCEPT !.pc = "sched", !.name = p, !.uid = 1]
    /\ UNCHANGED <<slock, tasks, podToTask, nextTask, backoff, launchOk, killed>>
    /\ UNCHANGED <<regVars, envVars, qVars, lisVars>>
    /\ UNCHANGED execVars

\* plugin.Config.Error as the offer registry and the task table see it:
\* handleSchedulingError changes neither, the loop goes on to the next pod
ErrorReturn ==
    /\ sl.pc = "error"
    /\ slock = None
    /\ sl' = [sl EXCEPT !.pc = "next"]
    /\ UNCHANGED <<slock, tasks, podToTask, nextTask, backoff, launchOk, killed>>
    /\ UNCHANGED <<regVars, envVars, qVars, lisVars>>
    /\ UNCHANGED execVars

\* podBackoff.getBackoff: the delay handed out, and the entry kept for the next failure
BackoffDelay(p) == IF backoff[p].backoff = 0 THEN defaultDuration ELSE backoff[p].backoff
NextBackoff(d) == IF 2 * d > maxDuration THEN maxDuration ELSE 2 * d

\* a gc that deletes nothing
gcKeeps(b) == b

\* podBackoff.gc: every entry whose lastUpdate is more than maxDuration ago is deleted
gc(b) == [p \in PodNames |-> IF b[p].old THEN NoEntry ELSE b[p]]

\* time passes: the last update of the pod's entry is now more than maxDuration ago
BackoffAges(p) ==
    /\ backoff[p].backoff # 0 /\ ~backoff[p].old
    /\ backoff' = [backoff EXCEPT ![p].old = TRUE]
    /\ UNCHANGED <<sl, slock, tasks, podToTask, nextTask, launchOk, killed>>
    /\ UNCHANGED <<regVars, envVars, qVars, lisVars>>
    /\ UNCHANGED execVars

\* an error handler that requeues after every error but noSuchPod
RequeuesAnyTask(p, err) == err # "noSuchPod"

\* errorHandler.handleSchedulingError: is the pod put back in podQueue
Requeues(p, err) ==
    /\ err # "noSuchPod"
    /\ taskForPod(p) # 0
    /\ getTask(taskForPod(p)).state = "Pending"
    /\ ~getTask(taskForPod(p)).launched

\* an error handler that registers a listener after every error
ArmsAlways(err) == TRUE

\* errorHandler.handleSchedulingError: is a break-out listener registered
ArmsListener(err) == err = "noSuitableOffers"

\* errorHandler.handleSchedulingError up to k.backoff.gc(): it returns at once after
\* noSuchPod, otherwise it collects the old back-off entries
handleSchedulingErrorGc ==
    /\ sl.pc = "error"
    /\ IF sl.err = "noSuchPod"
       THEN sl' = [sl EXCEPT !.pc = "next"] /\ UNCHANGED backoff
       ELSE sl' = [sl EXCEPT !.pc = "rlock"] /\ backoff' = gc(backoff)
    /\ UNCHANGED <<slock, tasks, podToTask, nextTask, launchOk, killed>>
    /\ UNCHANGED <<regVars, envVars, qVars, lisVars>>
    /\ UNCHANGED execVars

\* errorHandler.handleSchedulingError: k.api.RLocker().Lock()
handleSchedulingErrorRLock ==
    /\ sl.pc = "rlock"
    /\ slock = None
    /\ slock' = "read"
    /\ sl' = [sl EXCEPT !.pc = "locked"]
    /\ UNCHANGED <<tasks, podToTask, nextTask, backoff, launchOk, killed>>
    /\ UNCHANGED <<regVars, envVars, qVars, lisVars>>
    /\ UNCHANGED execVars

\* errorHandler.handleSchedulingError under the read lock, with offerStorage.Listen,
\* podBackoff.getBackoff and queuer.requeue; the deferred unlock ends it
handleSchedulingError ==
    LET p == sl.name
        t == taskForPod(p)
        arm == Requeues(p, sl.err) /\ ArmsListener(sl.err)
        l == IF arm THEN nextL ELSE 0
        delay == BackoffDelay(p)
    IN /\ sl.pc = "locked"
       /\ arm => nextL <= MaxListeners
       /\ IF Requeues(p, sl.err)
          THEN /\ backoff' = [backoff EXCEPT ![p] = [backoff |-> NextBackoff(delay),
                                                     old |-> FALSE]]
               /\ podQueue' = OfferKeep(podQueue, [name |-> p, uid |-> sl.uid,
                                                   left |-> delay, notify |-> l])
               /\ IF arm
                  THEN /\ lobj' = [lobj EXCEPT ![l] = [pod |-> p, task |-> t, age |-> 0,
                                                       saw |-> 0, closed |-> 0]]
                       /\ nextL' = nextL + 1
                       /\ listeners' = [listeners EXCEPT ![p] = l]
                  ELSE UNCHANGED <<lobj, nextL, listeners>>
          ELSE UNCHANGED <<backoff, podQueue, lobj, nextL, listeners>>
       /\ sl' = [sl EXCEPT !.pc = "next"]
       /\ slock' = None
       /\ UNCHANGED <<tasks, podToTask, nextTask, launchOk, killed>>
       /\ UNCHANGED <<store, updq, updates, qlock, run>>
       /\ UNCHANGED <<notifier, cache>>
       /\ UNCHANGED <<regVars, envVars>>
       /\ UNCHANGED execVars

\* a deleteOne that kills the task of the pod whatever its state
DeleteCaseKills(p) == IF taskForPod(p) = 0 THEN "none" ELSE "kill"

\* deleter.deleteOne: what it does with the pod's task
\*   "none": no task; "unregister": pending and not launched; "kill": launched or running;
\*   "noSuchTask": any other state
DeleteCase(p) ==
    IF taskForPod(p) = 0 THEN "none"
    ELSE LET task == getTask(taskForPod(p))
         IN IF task.state = "Pending" /\ ~task.launched THEN "unregister"
            ELSE IF task.state \in {"Pending", "Running"} THEN "kill"
            ELSE "noSuchTask"

\* deleter.deleteOne for the pod (name p, uid u)
deleteOne(p, u) ==
    LET t == taskForPod(p)
        task == getTask(t)
    IN /\ slock = None
       /\ podQueue' = Dequeued(podQueue, u, p)
       /\ CASE DeleteCase(p) = "unregister" ->
                 /\ acquired' = IF HasAcceptedOffer(task)
                                THEN AfterRelease(acquired, task.offer) ELSE acquired
                 /\ tasks' = [tasks EXCEPT ![t] = NoTask]
                 /\ podToTask' = [podToTask EXCEPT ![p] = 0]
                 /\ UNCHANGED killed
            [] DeleteCase(p) = "kill" ->
                 /\ killed[t] < MaxKills
                 /\ tasks' = [tasks EXCEPT ![t].deleted = TRUE]
                 /\ killed' = [killed EXCEPT ![t] = @ + 1]
                 /\ UNCHANGED <<acquired, podToTask>>
            [] OTHER -> UNCHANGED <<acquired, tasks, podToTask, killed>>
       /\ UNCHANGED <<sl, slock, nextTask, backoff, launchOk>>
       /\ UNCHANGED <<store, updq, qlock, run>>
       /\ UNCHANGED <<lingerTTL, offers, expiration, delayed, declined, timers, del, added>>
       /\ UNCHANGED <<envVars, lisVars>>
       /\ offersAcquired' = OffersAcquiredInc

\* deleter.Run: a DELETE entry taken from the channel is handed to deleteOne
DeleterRun ==
    /\ updates # <<>>
    /\ deleteOne(Head(updates).name, Head(updates).uid)
    /\ updates' = Tail(updates)
    /\ UNCHANGED execVars

\* schedulingPlugin.reconcilePod when the control plane no longer knows the pod:
\* deleteOne is called directly
ReconcileDeleted(p, u) ==
    /\ p \in pods
    /\ deleteOne(p, u)
    /\ UNCHANGED updates
    /\ UNCHANGED execVars

\* the driver's status updates: a launched task is reported running, then terminal; a
\* finished record is dropped after its grace window
StatusUpdate(t) ==
    /\ slock = None
    /\ tasks[t].launched
    /\ tasks[t].state \in {"Pending", "Running"}
    /\ tasks' = [tasks EXCEPT ![t].state = IF @ = "Pending" THEN "Running" ELSE "Finished"]
    /\ UNCHANGED <<sl, slock, podToTask, nextTask, backoff, launchOk, killed>>
    /\ UNCHANGED <<regVars, envVars, qVars, lisVars>>
    /\ UNCHANGED execVars

RemoveFinished(t) ==
    /\ slock = None
    /\ tasks[t].state = "Finished"
    /\ tasks' = [tasks EXCEPT ![t] = NoTask]
    /\ podToTask' = [podToTask EXCEPT ![tasks[t].pod] = IF @ = t THEN 0 ELSE @]
    /\ UNCHANGED <<sl, slock, nextTask, backoff, launchOk, killed>>
    /\ UNCHANGED <<regVars, envVars, qVars, lisVars>>
    /\ UNCHANGED execVars

\* -------------------------------------------------------------- listeners
\* the filter handleSchedulingError hands to Listen, for the listener's task
Accepts(l, o) ==
    LET task == getTask(lobj[l].task)
    IN IF task.state = "Pending"
       THEN ~task.launched /\ AcceptOffer(lobj[l].pod, o)
       ELSE TRUE

\* stringsCache.Strings: the cache after the call
RefillDue == cache.left < 0
LiveIds == {o \in OfferIds : offers[o] # None}
CacheAfter ==
    IF RefillDue
    THEN [left |-> offerIdCacheTTL, cached |-> LiveIds, filled |-> TRUE,
          version |-> IF cache.filled /\ cache.cached = LiveIds
                      THEN cache.version ELSE cache.version + 1]
    ELSE cache

\* a sweep that asks the filter without looking the offer up
MatchesUnchecked(l, o) == Accepts(l, o)

\* offerStorage.notifyListeners: does the offer behind a cached id notify the listener
Matches(l, o) == Get(o) # None /\ ~HasExpired(Get(o), o) /\ Accepts(l, o)

\* a nextListener that leaves the listener it returns in the queue
NotifyPeek(p) ==
    /\ notifier.pc = "idle"
    /\ listeners[p] # 0
    /\ notifier' = [pc |-> "popped", l |-> listeners[p]]
    /\ UNCHANGED <<lobj, nextL, cache, listeners>>
    /\ UNCHANGED <<regVars, envVars, qVars, schedVars>>
    /\ UNCHANGED execVars

\* offerStorage.nextListener: the loop takes a listener off the queue
NotifyPop(p) ==
    /\ notifier.pc = "idle"
    /\ listeners[p] # 0
    /\ notifier' = [pc |-> "popped", l |-> listeners[p]]
    /\ listeners' = [listeners EXCEPT ![p] = 0]
    /\ UNCHANGED <<lobj, nextL, cache>>
    /\ UNCHANGED <<regVars, envVars, qVars, schedVars>>
    /\ UNCHANGED execVars

\* a sweep that never puts the listener back
RequeuedNever(l) == listeners

\* DelayFIFO.Offer(listener, KeepExisting)
Requeued(l) == IF listeners[lobj[l].pod] = 0 THEN [listeners EXCEPT ![lobj[l].pod] = l]
               ELSE listeners

\* offerStorage.notifyListeners after nextListener: one sweep for the popped listener
NotifySweep ==
    LET l == notifier.l
        c == CacheAfter
        hit == \E o \in c.cached : Matches(l, o)
    IN /\ notifier.pc = "popped"
       /\ (\E o \in c.cached : Get(o) # None /\ ~HasExpired(Get(o), o)) => slock # "bind"
       /\ cache' = c
       /\ IF lobj[l].saw = c.version
          THEN /\ listeners' = Requeued(l)
               /\ UNCHANGED lobj
          ELSE IF hit
          THEN /\ lobj' = [lobj EXCEPT ![l].saw = c.version, ![l].closed = @ + 1]
               /\ UNCHANGED listeners
          ELSE /\ lobj' = [lobj EXCEPT ![l].saw = c.version, ![l].age = @ + 1]
               /\ listeners' = IF lobj[l].age + 1 < offerListenerMaxAge THEN Requeued(l)
                               ELSE listeners
       /\ notifier' = [pc |-> "idle", l |-> 0]
       /\ UNCHANGED nextL
       /\ UNCHANGED <<regVars, envVars, qVars, schedVars>>
       /\ UNCHANGED execVars

\* The offer registry with the scheduler's Schedule / Bind / deleteOne as its claimants
\* and the driver's callbacks; the queuer and the error handler appear as NextPod and
\* ErrorReturn
Next ==
    \/ Tick
    \/ \E o \in OfferIds : Add(o)
    \/ \E o \in OfferIds : RescindOffer(o)
    \/ \E c \in Callers : DeleteAcquire(c)
    \/ \E c \in Callers : DeleteExpire(c)
    \/ \E t \in timers : DeferredDecline(t)
    \/ \E item \in delayed : ageOffers(item)
    \/ \E p \in PodNames : NextPod(p)
    \/ \E o \in OfferIds \cup {None} : Schedule(o)
    \/ BindCheck
    \/ \E outcome \in {"ok", "prepareFail", "launchFail"} : BindLaunch(outcome)
    \/ ErrorReturn
    \/ \E p \in PodNames : ReconcileDeleted(p, 1)
    \/ \E t \in TaskIds : StatusUpdate(t)
    \/ \E t \in TaskIds : RemoveFinished(t)

Spec == Init /\ [][Next]_vars

\* ---- the components of Spec, each with the whole scheduling loop
\* the offer registry under the scheduling loop: no pod is deleted and the driver reports
\* no status, so a launched task stays launched and pending
NextOffers ==
    \/ Tick
    \/ \E o \in OfferIds : Add(o)
    \/ \E o \in OfferIds : RescindOffer(o)
    \/ \E c \in Callers : DeleteAcquire(c)
    \/ \E c \in Callers : DeleteExpire(c)
    \/ \E t \in timers : DeferredDecline(t)
    \/ \E item \in delayed : ageOffers(item)
    \/ \E p \in PodNames : NextPod(p)
    \/ \E o \in OfferIds \cup {None} : Schedule(o)
    \/ BindCheck
    \/ \E outcome \in {"ok", "prepareFail", "launchFail"} : BindLaunch(outcome)
    \/ ErrorReturn

SpecOffers == Init /\ [][NextOffers]_vars

\* the task registry under the scheduling loop, pod deletions and status updates: offers
\* are added and run out of time, nothing is rescinded and the aging loop does not run
NextTasks ==
    \/ Tick
    \/ \E o \in OfferIds : Add(o)
    \/ \E p \in PodNames : NextPod(p)
    \/ \E o \in OfferIds \cup {None} : Schedule(o)
    \/ BindCheck
    \/ \E outcome \in {"ok", "prepareFail", "launchFail"} : BindLaunch(outcome)
    \/ ErrorReturn
    \/ \E p \in PodNames : ReconcileDeleted(p, 1)
    \/ \E t \in TaskIds : StatusUpdate(t)
    \/ \E t \in TaskIds : RemoveFinished(t)

SpecTasks == Init /\ [][NextTasks]_vars

\* everything Spec does, with one pod for the control plane to create, delete and re-create
SpecOnePod == InitWith({"p1"}, {"o2"}) /\ [][Next]_vars

\* The queuer between the reflector, the scheduling loop, the error handler and the
\* deleter, in a run where the resource manager makes no offer: every Schedule ends in
\* the error handler
NextQueue ==
    \/ Tick
    \/ \E p \in PodNames : AddPod(p)
    \/ \E p \in PodNames : UpdatePod(p, FALSE)
    \/ \E p \in PodNames : DeletePod(p)
    \/ RunAwait
    \/ RunWait
    \/ RunEnqueue
    \/ \E e \in podQueue : YieldAwait(e)
    \/ YieldWait
    \/ YieldCheck
    \/ Schedule(None)
    \/ handleSchedulingErrorGc
    \/ handleSchedulingErrorRLock
    \/ handleSchedulingError
    \/ DeleterRun

InitQueue == InitWith({"p1"}, {}) /\ lingerTTL = 0

SpecQueue == InitQueue /\ [][NextQueue]_vars

\* ---- the condition wait of queuer.Run and queuer.yield, step by step. loop is "run"
\* or "yield"; the positions inside the loop are
\*   "await"     Await is called (the lock is taken to be held)
\*   "spawned"   Await returned nil, the go-routine that calls Wait is started
\*   "waiting"   the go-routine is inside Wait: it has unlocked and sleeps
\*   "woken"     a Broadcast woke the go-routine, Wait is about to lock again
\*   "relocked"  Wait returned with the lock and the channel signalled is closed
\* and the same with T appended once time.After fired in the loop's select and the loop
\* has called Broadcast and receives from signalled
Loops == {"run", "yield"}
pcOf(loop) == IF loop = "run" THEN run.pc ELSE sl.pc
goto(loop, pc) ==
    IF loop = "run" THEN run' = [run EXCEPT !.pc = pc] /\ UNCHANGED sl
                    ELSE sl' = [sl EXCEPT !.pc = pc] /\ UNCHANGED run
\* what a step of the wait leaves alone, besides the loop's position and the lock
WaitFrame ==
    /\ UNCHANGED <<store, updq, updates, podQueue>>
    /\ UNCHANGED <<slock, tasks, podToTask, nextTask, backoff, launchOk, killed>>
    /\ UNCHANGED <<regVars, envVars, lisVars>>
    /\ UNCHANGED execVars

\* q.lock.Lock() at the head of Run and of yield; a loop that comes round with the lock
\* goes on to Await
Lock(loop) ==
    /\ pcOf(loop) = (IF loop = "run" THEN "idle" ELSE "next")
    /\ qlock \in {None, loop}
    /\ qlock' = loop
    /\ goto(loop, "await")
    /\ WaitFrame

\* Await has something to return to the loop
Ready(loop) == IF loop = "run" THEN updq # <<>> ELSE \E e \in podQueue : Poppable(e)

\* Await timed out and returned nil: the loop starts the go-routine that calls Wait
AwaitNil(loop) ==
    /\ pcOf(loop) = "await"
    /\ ~Ready(loop)
    /\ goto(loop, "spawned")
    /\ UNCHANGED qlock
    /\ WaitFrame

\* queuer.Run: podUpdates.Await returns a pod
RunAwaitPod ==
    /\ run.pc = "await"
    /\ updq # <<>>
    /\ LET p == Head(updq)
       IN /\ store' = [store EXCEPT ![p].tag = "POP"]
          /\ run' = [pc |-> "popped", name |-> p, uid |-> store[p].uid, host |-> store[p].host]
    /\ updq' = Tail(updq)
    /\ UNCHANGED <<updates, podQueue, qlock>>
    /\ UNCHANGED <<regVars, envVars, schedVars, lisVars>>
    /\ UNCHANGED execVars

\* queuer.yield: podQueue.Await returns an entry
YieldAwaitPod(e) ==
    /\ sl.pc = "await"
    /\ Poppable(e)
    /\ podQueue' = podQueue \ {e}
    /\ sl' = [IdleLoop EXCEPT !.pc = "yielded", !.name = e.name, !.uid = e.uid]
    /\ UNCHANGED <<store, updq, updates, run, qlock>>
    /\ UNCHANGED <<slock, tasks, podToTask, nextTask, backoff, launchOk, killed>>
    /\ UNCHANGED <<regVars, envVars, lisVars>>
    /\ UNCHANGED execVars

\* the go-routine calls Wait: sync.Cond.Wait unlocks and sleeps. A Broadcast that came
\* before is lost on it
condWait(loop) ==
    /\ pcOf(loop) \in {"spawned", "spawnedT"}
    /\ qlock' = None
    /\ goto(loop, IF pcOf(loop) = "spawned" THEN "waiting" ELSE "waitingT")
    /\ WaitFrame

\* the loop's select takes time.After: it calls Broadcast, which wakes the go-routine
\* when it sleeps, and goes on to receive from signalled
waitTimeout(loop) ==
    /\ pcOf(loop) \in {"spawned", "waiting", "woken", "relocked"}
    /\ goto(loop, CASE pcOf(loop) = "spawned" -> "spawnedT"
                    [] pcOf(loop) = "waiting" -> "wokenT"
                    [] pcOf(loop) = "woken" -> "wokenT"
                    [] pcOf(loop) = "relocked" -> "relockedT")
    /\ UNCHANGED qlock
    /\ WaitFrame

\* deltaCond.Broadcast (updatesAvailable) or unscheduledCond.Broadcast (requeue, reoffer,
\* Run) by another go-routine wakes the sleeping go-routine
Broadcast(loop) ==
    /\ pcOf(loop) \in {"waiting", "waitingT"}
    /\ goto(loop, IF pcOf(loop) = "waiting" THEN "woken" ELSE "wokenT")
    /\ UNCHANGED qlock
    /\ WaitFrame

\* Wait locks again and returns; the deferred close(signalled) runs
condRelock(loop) ==
    /\ pcOf(loop) \in {"woken", "wokenT"}
    /\ qlock = None
    /\ qlock' = loop
    /\ goto(loop, IF pcOf(loop) = "woken" THEN "relocked" ELSE "relockedT")
    /\ WaitFrame

\* a loop that does not receive from signalled after its Broadcast
SignalledOrTimedOut(pc) == pc \in {"relocked", "relockedT", "spawnedT", "waitingT", "wokenT"}

\* the loop's receive from signalled can return: the channel is closed
Signalled(pc) == pc \in {"relocked", "relockedT"}

\* the loop receives from signalled, in the select or after its Broadcast, and continues
\* with the next round
waitDone(loop) ==
    /\ Signalled(pcOf(loop))
    /\ goto(loop, "await")
    /\ UNCHANGED qlock
    /\ WaitFrame

\* the two loops with the pod events that feed them and the scheduling of a yielded
\* pod, which fails for want of an offer and requeues the pod
NextCond ==
    \/ \E p \in PodNames : AddPod(p)
    \/ \E p \in PodNames : UpdatePod(p, FALSE)
    \/ \E p \in PodNames : DeletePod(p)
    \/ \E loop \in Loops : Lock(loop)
    \/ \E loop \in Loops : AwaitNil(loop)
    \/ RunAwaitPod
    \/ \E e \in podQueue : YieldAwaitPod(e)
    \/ \E loop \in Loops : condWait(loop)
    \/ \E loop \in Loops : waitTimeout(loop)
    \/ \E loop \in Loops : Broadcast(loop)
    \/ \E loop \in Loops : condRelock(loop)
    \/ \E loop \in Loops : waitDone(loop)
    \/ RunEnqueue
    \/ YieldCheck
    \/ Schedule(None)
    \/ handleSchedulingErrorGc
    \/ handleSchedulingErrorRLock
    \/ handleSchedulingError

SpecCond == InitQueue /\ [][NextCond]_vars

\* The listener notification loop with the registry it sweeps (offers arrive and age
\* out) and the error handler that registers listeners; the queuer appears as NextPod
NextListen ==
    \/ Tick
    \/ \E o \in OfferIds : Add(o)
    \/ \E c \in Callers : DeleteAcquire(c)
    \/ \E c \in Callers : DeleteExpire(c)
    \/ \E t \in timers : DeferredDecline(t)
    \/ \E item \in delayed : ageOffers(item)
    \/ \E p \in PodNames : NextPod(p)
    \/ \E o \in OfferIds \cup {None} : Schedule(o)
    \/ BindCheck
    \/ BindLaunch("ok")
    \/ handleSchedulingErrorGc
    \/ handleSchedulingErrorRLock
    \/ handleSchedulingError
    \/ \E p \in PodNames : ReconcileDeleted(p, 1)
    \/ \E p \in PodNames : NotifyPop(p)
    \/ NotifySweep

InitListen == InitWith({"p1"}, {"o2"})

SpecListen == InitListen /\ [][NextListen]_vars

\* The back-off of a pod that failed to schedule and its break-out: the pod's way from
\* the reflector through queuer.Run, yield, Schedule and Bind to the error handler, the
\* registry receiving and aging offers, and the listener notification loop
NextBreakout ==
    \/ Tick
    \/ \E o \in OfferIds : Add(o)
    \/ \E c \in Callers : DeleteAcquire(c)
    \/ \E c \in Callers : DeleteExpire(c)
    \/ \E t \in timers : DeferredDecline(t)
    \/ \E item \in delayed : ageOffers(item)
    \/ \E p \in PodNames : AddPod(p)
    \/ RunAwait
    \/ RunWait
    \/ RunEnqueue
    \/ \E e \in podQueue : YieldAwait(e)
    \/ YieldCheck
    \/ \E o \in OfferIds \cup {None} : Schedule(o)
    \/ BindCheck
    \/ \E outcome \in {"ok", "prepareFail", "launchFail"} : BindLaunch(outcome)
    \/ handleSchedulingErrorGc
    \/ handleSchedulingErrorRLock
    \/ handleSchedulingError
    \/ \E p \in PodNames : NotifyPop(p)
    \/ NotifySweep

InitBreakout == InitWith({"p1"}, {"o2"})

SpecBreakout == InitBreakout /\ [][NextBreakout]_vars

\* The error handler and its back-off table: the scheduling loop fails in Schedule (no
\* offer fits) or in Bind (the launch fails) and hands the pod to the error handler,
\* time passes between the failures, and the deleter contends for the scheduler lock
NextErrorHandler ==
    \/ Tick
    \/ \E o \in OfferIds : Add(o)
    \/ \E p \in PodNames : NextPod(p)
    \/ \E o \in OfferIds \cup {None} : Schedule(o)
    \/ BindCheck
    \/ \E outcome \in {"ok", "prepareFail", "launchFail"} : BindLaunch(outcome)
    \/ \E p \in PodNames : BackoffAges(p)
    \/ handleSchedulingErrorGc
    \/ handleSchedulingErrorRLock
    \/ handleSchedulingError
    \/ \E p \in PodNames : ReconcileDeleted(p, 1)
    \/ \E t \in TaskIds : StatusUpdate(t)

InitErrorHandler == InitWith({"p1"}, {"o2"}) /\ lingerTTL = 0

SpecErrorHandler == InitErrorHandler /\ [][NextErrorHandler]_vars

\* kubeScheduler.doSchedule as a function of the task it is handed: the task of p1 holds
\* any offer or none, claimed or not, when the scheduling loop calls Schedule for the pod
NextDoSchedule ==
    \/ Tick
    \/ \E o \in OfferIds : Add(o)
    \/ \E p \in PodNames : NextPod(p)
    \/ \E o \in OfferIds \cup {None} : Schedule(o)
    \/ BindCheck
    \/ \E outcome \in {"ok", "prepareFail", "launchFail"} : BindLaunch(outcome)
    \/ ErrorReturn

\* the scheduler side when the scheduling loop, at position pc for pod p, finds the given
\* task on record for p (NoTask: none) and the given listener queued for it (NoListener:
\* none); claimed says whether the task's offer is acquired, O are the offers of the run
InitFor(p, O, task, claimed, pc, listener) ==
    /\ pods = {p}
    /\ offerPool = O
    /\ lingerTTL = 0
    /\ offers = [o \in OfferIds |-> IF o = task.offer THEN "live" ELSE None]
    /\ expiration = [o \in OfferIds |-> TTL]
    /\ acquired = [o \in OfferIds |-> IF o = task.offer THEN claimed ELSE 0]
    /\ offersAcquired = acquired
    /\ delayed = IF task.offer = None THEN {} ELSE {LiveItem(task.offer)}
    /\ declined = [o \in OfferIds |-> 0]
    /\ timers = {}
    /\ del = [c \in Callers |-> IdleDel]
    /\ added = OfferIds \cap {task.offer}
    /\ store = [q \in PodNames |-> NoPod]
    /\ updq = <<>>
    /\ updates = <<>>
    /\ podQueue = {}
    /\ qlock = None
    /\ run = IdleRun
    /\ sl = IF pc = "next" THEN IdleLoop
           ELSE [IdleLoop EXCEPT !.pc = pc, !.name = p, !.uid = 1]
    /\ slock = None
    /\ tasks = [t \in TaskIds |-> IF t = 1 THEN task ELSE NoTask]
    /\ podToTask = [q \in PodNames |-> IF q = p /\ task # NoTask THEN 1 ELSE 0]
    /\ nextTask = IF task = NoTask THEN 1 ELSE 2
    /\ backoff = [q \in PodNames |-> NoEntry]
    /\ launchOk = [o \in OfferIds |-> 0]
    /\ killed = [t \in TaskIds |-> 0]
    /\ lobj = [l \in ListenerIds |-> IF l = 1 THEN listener ELSE NoListener]
    /\ nextL = IF listener = NoListener THEN 1 ELSE 2
    /\ listeners = [q \in PodNames |-> IF q = p /\ listener # NoListener THEN 1 ELSE 0]
    /\ notifier = [pc |-> "idle", l |-> 0]
    /\ cache = [left |-> -1, cached |-> {}, filled |-> FALSE, version |-> 0]
    /\ New({})

InitCall(task, claimed, pc) == InitFor("p1", OfferIds, task, claimed, pc, NoListener)

InitDoSchedule ==
    \E held \in OfferIds \cup {None}, claimed \in {0, 1} :
        InitCall([NewTask("p1", 1) EXCEPT !.offer = held], claimed, "next")

SpecDoSchedule == InitDoSchedule /\ [][NextDoSchedule]_vars

\* binder.Bind as a function of the task it finds: none, pending without or with an
\* accepted offer, launched, running or finished
TaskInputs ==
    {NoTask} \cup
    {[NewTask("p1", 1) EXCEPT !.offer = o, !.launched = l, !.state = st] :
        o \in OfferIds \cup {None}, l \in BOOLEAN, st \in {"Pending", "Running", "Finished"}}

InitBind ==
    \E task \in TaskInputs :
        /\ task.launched => task.offer # None
        /\ task.state # "Pending" => task.launched
        /\ InitCall(task, 1, "bind")

SpecBind == InitBind /\ [][NextDoSchedule]_vars

\* binder.Bind called for pod p by a caller that did not go through Schedule first
Bind(p) ==
    /\ sl.pc = "next"
    /\ p \in pods
    /\ sl' = [IdleLoop EXCEPT !.pc = "bind", !.name = p, !.uid = 1]
    /\ UNCHANGED <<slock, tasks, podToTask, nextTask, backoff, launchOk, killed>>
    /\ UNCHANGED <<regVars, envVars, qVars, lisVars>>
    /\ UNCHANGED execVars

\* binder.Bind as an interface anyone may call: the scheduling loop with its offers and
\* the driver's status updates, and Bind calls for pods whatever their task's state
NextRebind ==
    \/ Tick
    \/ \E o \in OfferIds : Add(o)
    \/ \E p \in PodNames : NextPod(p)
    \/ \E o \in OfferIds \cup {None} : Schedule(o)
    \/ \E p \in PodNames : Bind(p)
    \/ BindCheck
    \/ \E outcome \in {"ok", "prepareFail", "launchFail"} : BindLaunch(outcome)
    \/ ErrorReturn
    \/ \E t \in TaskIds : StatusUpdate(t)

InitRebind == InitWith({"p1", "p2"}, {"o2"})

SpecRebind == InitRebind /\ [][NextRebind]_vars

\* The notification loop working on a listener of any age: the pod p2 has failed to
\* schedule before, its listener is queued and has grown as old as the offers that came
\* and went made it; offers go on arriving and aging out, and the pod goes on failing
NextAgeing ==
    \/ Tick
    \/ \E o \in OfferIds : Add(o)
    \/ \E c \in Callers : DeleteAcquire(c)
    \/ \E c \in Callers : DeleteExpire(c)
    \/ \E item \in delayed : ageOffers(item)
    \/ \E p \in PodNames : NextPod(p)
    \/ \E o \in OfferIds \cup {None} : Schedule(o)
    \/ handleSchedulingErrorGc
    \/ handleSchedulingErrorRLock
    \/ handleSchedulingError
    \/ \E p \in PodNames : NotifyPop(p)
    \/ NotifySweep

InitAgeing ==
    \E a \in 0..(offerListenerMaxAge - 1) :
        InitFor("p2", {"o1"}, NewTask("p2", 1), 0, "next",
                [pod |-> "p2", task |-> 1, age |-> a, saw |-> 0, closed |-> 0])

SpecAgeing == InitAgeing /\ [][NextAgeing]_vars

\* ---------------------------------------------------------------- executor
\* everything on the scheduler side
schedSide == <<regVars, envVars, qVars, schedVars, lisVars>>

\* the executor process is running (no callback has panicked)
Alive == panicked = None

\* an isConnected that holds in every state
isConnectedAlways == TRUE

\* KubernetesExecutor.isConnected
isConnected == state = "connected"

\* the outgoing channel has room for one more closure
Room == Len(outgoing) < OutgoingCap

\* sendStatus can return: select takes the done case, or the channel send goes through
CanSend == done \/ Room

\* a sendStatus that queues the closure also when done is closed
sendStatusAlways(status) == Append(outgoing, status)

\* sendStatus: the outgoing channel after the call
sendStatus(status) == IF done THEN outgoing ELSE Append(outgoing, status)

\* an update that carries no pods whatever the pods table holds
PushEmpty(ps) == [seq |-> 1 - updateChan.seq, pods |-> {}]

\* k.updateChan <- update, for the pod set ps
Push(ps) == [seq |-> 1 - updateChan.seq, pods |-> ps]

\* the continuation slot LaunchTask's go statement takes
FreeConts == {c \in ContIds : cont[c].pc = None}
NextCont == CHOOSE c \in FreeConts : \A d \in FreeConts : c <= d

\* a removePodTask that reports the task also when it is not on record
removePodTaskUnknown(id, reason, taskState) ==
    /\ CanSend
    /\ ktasks' = [ktasks EXCEPT ![id] = NoKuberTask]
    /\ IF ktasks[id].found /\ ktasks[id].podName \in kpods
       THEN /\ kpods' = kpods \ {ktasks[id].podName}
            /\ updateChan' = Push(kpods')
       ELSE UNCHANGED <<kpods, updateChan>>
    /\ outgoing' = sendStatus(newStatus(id, taskState, reason))

\* removePodTask (under the executor lock): drop the task, its pod if the pods table
\* has it, push the remaining pods, and report the task in the given state
removePodTask(id, reason, taskState) ==
    IF ~ktasks[id].found
    THEN UNCHANGED <<ktasks, kpods, updateChan, outgoing>>
    ELSE /\ CanSend
         /\ ktasks' = [ktasks EXCEPT ![id] = NoKuberTask]
         /\ IF ktasks[id].podName \in kpods
            THEN /\ kpods' = kpods \ {ktasks[id].podName}
                 /\ updateChan' = Push(kpods')
            ELSE UNCHANGED <<kpods, updateChan>>
         /\ outgoing' = sendStatus(newStatus(id, taskState, reason))

\* a reportLostTask that reports the task as killed
reportsKilled(id, reason) == removePodTask(id, reason, "TASK_KILLED")

\* reportLostTask
reportLostTask(id, reason) == removePodTask(id, reason, "TASK_LOST")

\* a killPodForTask that reports the task as lost
killPodForTaskLost(id, reason) == removePodTask(id, reason, "TASK_LOST")

\* killPodForTask
killPodForTask(id, reason) == removePodTask(id, reason, "TASK_KILLED")

\* ---- connection callbacks
\* an isDone that never sees the done channel closed
isDoneNever == FALSE

\* isDone: is the done channel closed
isDone == done

\* Registered, up to its isDone check
ExecutorRegistered ==
    /\ Alive /\ conn = None
    /\ conn' = IF isDone THEN None ELSE "Registered"
    /\ UNCHANGED <<taskInfos, state, done, panicked, ktasks, kpods, updateChan, outgoing,
                   lt, kt, sd, cont, pump, sent>>
    /\ UNCHANGED schedSide

\* Reregistered, up to its isDone check
Reregistered ==
    /\ Alive /\ conn = None
    /\ conn' = IF isDone THEN None ELSE "Reregistered"
    /\ UNCHANGED <<taskInfos, state, done, panicked, ktasks, kpods, updateChan, outgoing,
                   lt, kt, sd, cont, pump, sent>>
    /\ UNCHANGED schedSide

\* Disconnected, up to its isDone check
Disconnected ==
    /\ Alive /\ conn = None
    /\ conn' = IF isDone THEN None ELSE "Disconnected"
    /\ UNCHANGED <<taskInfos, state, done, panicked, ktasks, kpods, updateChan, outgoing,
                   lt, kt, sd, cont, pump, sent>>
    /\ UNCHANGED schedSide

\* the state each connection callback swaps from and to, and its panic message
SwapFrom(cb) == IF cb = "Disconnected" THEN "connected" ELSE "disconnected"
SwapTo(cb) == IF cb = "Disconnected" THEN "disconnected" ELSE "connected"
PanicOf(cb) == IF cb = "Disconnected" THEN "already disconnected?!" ELSE "already connected?!"

\* a swapState that stores the new state whatever the old one is
swapStateBlind(from, to) == TRUE

\* swapState: does the compare-and-swap from the state `from` succeed
swapState(from, to) == state = from

\* the swapState of Registered / Reregistered / Disconnected, and the panic when it fails
ConnectionSwap ==
    /\ Alive /\ conn # None
    /\ IF swapState(SwapFrom(conn), SwapTo(conn))
       THEN state' = SwapTo(conn) /\ UNCHANGED panicked
       ELSE panicked' = PanicOf(conn) /\ UNCHANGED state
    /\ conn' = None
    /\ UNCHANGED <<taskInfos, done, ktasks, kpods, updateChan, outgoing,
                   lt, kt, sd, cont, pump, sent>>
    /\ UNCHANGED schedSide

\* ---- LaunchTask
\* LaunchTask, up to its isDone check
LaunchTask(ti) ==
    /\ Alive /\ lt.pc = "idle"
    /\ lt' = IF isDone THEN lt ELSE [pc |-> "isConnected", id |-> ti.id, pod |-> ti.pod]
    /\ UNCHANGED <<taskInfos, state, done, panicked, ktasks, kpods, updateChan, outgoing,
                   conn, kt, sd, cont, pump, sent>>
    /\ UNCHANGED schedSide

\* yaml.Unmarshal of the task's data: a TaskInfo whose data does not decode gives no pod
Decodes(pod) == pod # None

\* LaunchTask: the isConnected check and the decoding of the task's data
LaunchTaskDecode ==
    /\ Alive /\ lt.pc = "isConnected"
    /\ IF ~isConnected
       THEN /\ CanSend
            /\ outgoing' = sendStatus(newStatus(lt.id, "TASK_FAILED", "ExecutorUnregistered"))
            /\ lt' = IdleCall
       ELSE IF ~Decodes(lt.pod)
       THEN /\ CanSend
            /\ outgoing' = sendStatus(newStatus(lt.id, "TASK_FAILED", "UnmarshalTaskDataFailure"))
            /\ lt' = IdleCall
       ELSE /\ lt' = [lt EXCEPT !.pc = "lock"]
            /\ UNCHANGED outgoing
    /\ UNCHANGED <<taskInfos, state, done, panicked, ktasks, kpods, updateChan,
                   conn, kt, sd, cont, pump, sent>>
    /\ UNCHANGED schedSide

\* a duplicate check that finds no task id on record
NeverFound(id) == FALSE

\* LaunchTask: is the task id already on record
Found(id) == ktasks[id].found

\* LaunchTask under the executor lock: refuse a task id on record, else record the task
\* and start the continuation
LaunchTaskRecord ==
    /\ Alive /\ lt.pc = "lock"
    /\ IF Found(lt.id)
       THEN UNCHANGED <<ktasks, cont>>
       ELSE /\ FreeConts # {}
            /\ ktasks' = [ktasks EXCEPT ![lt.id] = NewKuberTask]
            /\ cont' = [cont EXCEPT ![NextCont] =
                          [pc |-> "launchTask", id |-> lt.id, pod |-> lt.pod, expired |-> FALSE]]
    /\ lt' = IdleCall
    /\ UNCHANGED <<taskInfos, state, done, panicked, kpods, updateChan, outgoing,
                   conn, kt, sd, pump, sent>>
    /\ UNCHANGED schedSide

\* ---- the launch continuation
\* launchTask: POST the binding and marshal the empty pod status
launchTask(c, outcome) ==
    /\ Alive /\ cont[c].pc = "launchTask"
    /\ IF outcome = "ok"
       THEN /\ cont' = [cont EXCEPT ![c].pc = "bound"]
            /\ UNCHANGED outgoing
       ELSE /\ CanSend
            /\ outgoing' = sendStatus(newStatus(cont[c].id, "TASK_FAILED",
                              IF outcome = "postFail" THEN "CreateBindingFailure"
                                                      ELSE "marshalError"))
            /\ cont' = [cont EXCEPT ![c] = NoCont]
    /\ UNCHANGED <<taskInfos, state, done, panicked, ktasks, kpods, updateChan,
                   conn, lt, kt, sd, pump, sent>>
    /\ UNCHANGED schedSide

\* launchTask under the executor lock: name the task's pod, hand the pods to the kubelet,
\* report TASK_STARTING and start _launchTask
launchTaskBound(c) ==
    LET id == cont[c].id
        podFullName == GetPodFullName(cont[c].pod)
    IN /\ Alive /\ cont[c].pc = "bound"
       /\ IF ~ktasks[id].found
          THEN /\ reportLostTask(id, "LaunchTaskFailed")
               /\ cont' = [cont EXCEPT ![c] = NoCont]
          ELSE /\ CanSend
               /\ ktasks' = [ktasks EXCEPT ![id].podName = podFullName]
               /\ kpods' = kpods \cup {podFullName}
               /\ updateChan' = Push(kpods')
               /\ outgoing' = sendStatus(newStatus(id, "TASK_STARTING", "CreateBindingSuccess"))
               /\ cont' = [cont EXCEPT ![c].pc = "waitForRunningPod"]
       /\ UNCHANGED <<taskInfos, state, done, panicked, conn, lt, kt, sd, pump, sent>>
       /\ UNCHANGED schedSide

\* the timer of _launchTask: launchGracePeriod is over, the channel expired is closed
GraceExpires(c) ==
    /\ Alive /\ cont[c].pc = "waitForRunningPod" /\ ~cont[c].expired
    /\ cont' = [cont EXCEPT ![c].expired = TRUE]
    /\ UNCHANGED <<taskInfos, state, done, panicked, ktasks, kpods, updateChan, outgoing,
                   conn, lt, kt, sd, pump, sent>>
    /\ UNCHANGED schedSide

\* a poll that goes on whatever the grace timer says
StaysAlways(c, info) == info # "running"

\* a poll that a failing getPidInfo ends
StaysUnlessError(c, info) ==
    /\ ~cont[c].expired /\ ktasks[cont[c].id].found
    /\ info \in {"notRunning", "marshalFail"}

\* _launchTask, one round of waitForRunningPod: does the loop go round again. info is
\* what getPidInfo and json.Marshal give: "err", "notRunning", "marshalFail", "running"
Stays(c, info) ==
    \/ info = "err"
    \/ /\ ~cont[c].expired /\ ktasks[cont[c].id].found
       /\ info \in {"notRunning", "marshalFail"}

\* a poll that takes every round that ends it for a running pod
leavesRunning(c, info) == "running"

\* _launchTask, where a round that ends the poll goes: on to the TASK_RUNNING report when
\* getMarshalledInfo gave data and no cancel, else to reportLost
leaves(c, info) ==
    IF ~cont[c].expired /\ ktasks[cont[c].id].found /\ info = "running"
    THEN "running" ELSE "lost"

\* _launchTask, one round of waitForRunningPod (a round that goes round again leaves
\* no trace)
waitForRunningPod(c, info) ==
    /\ Alive /\ cont[c].pc = "waitForRunningPod"
    /\ ~Stays(c, info)
    /\ cont' = [cont EXCEPT ![c].pc = leaves(c, info)]
    /\ UNCHANGED <<taskInfos, state, done, panicked, ktasks, kpods, updateChan, outgoing,
                   conn, lt, kt, sd, pump, sent>>
    /\ UNCHANGED schedSide

\* _launchTask after the pod was seen running: report TASK_RUNNING and start __launchTask,
\* unless the task is gone meanwhile
reportRunning(c) ==
    LET id == cont[c].id
    IN /\ Alive /\ cont[c].pc = "running"
       /\ IF ~ktasks[id].found
          THEN /\ reportLostTask(id, "LaunchTaskFailed")
               /\ cont' = [cont EXCEPT ![c] = NoCont]
          ELSE /\ CanSend
               /\ outgoing' = sendStatus(newStatus(id, "TASK_RUNNING", "pod-running"))
               /\ cont' = [cont EXCEPT ![c].pc = "monitor"]
               /\ UNCHANGED <<ktasks, kpods, updateChan>>
       /\ UNCHANGED <<taskInfos, state, done, panicked, conn, lt, kt, sd, pump, sent>>
       /\ UNCHANGED schedSide

\* _launchTask at the label reportLost, after the loop was left
reportLost(c) ==
    /\ Alive /\ cont[c].pc = "lost"
    /\ reportLostTask(cont[c].id, "LaunchTaskFailed")
    /\ cont' = [cont EXCEPT ![c] = NoCont]
    /\ UNCHANGED <<taskInfos, state, done, panicked, conn, lt, kt, sd, pump, sent>>
    /\ UNCHANGED schedSide

\* __launchTask, one round that ends the loop: checkForLostPodTask returns true. A round
\* with the task on record and the pod known to the kubelet leaves no trace
checkForLostPodTask(c) ==
    /\ Alive /\ cont[c].pc = "monitor"
    /\ reportLostTask(cont[c].id, "ContainersDisappeared")
    /\ cont' = [cont EXCEPT ![c] = NoCont]
    /\ UNCHANGED <<taskInfos, state, done, panicked, conn, lt, kt, sd, pump, sent>>
    /\ UNCHANGED schedSide

\* ---- KillTask
\* KillTask, up to its isDone check
KillTask(id) ==
    /\ Alive /\ kt.pc = "idle"
    /\ kt' = IF isDone THEN kt ELSE [pc |-> "isConnected", id |-> id, pod |-> None]
    /\ UNCHANGED <<taskInfos, state, done, panicked, ktasks, kpods, updateChan, outgoing,
                   conn, lt, sd, cont, pump, sent>>
    /\ UNCHANGED schedSide

\* KillTask: the isConnected check
KillTaskCheck ==
    /\ Alive /\ kt.pc = "isConnected"
    /\ kt' = IF isConnected THEN [kt EXCEPT !.pc = "lock"] ELSE IdleCall
    /\ UNCHANGED <<taskInfos, state, done, panicked, ktasks, kpods, updateChan, outgoing,
                   conn, lt, sd, cont, pump, sent>>
    /\ UNCHANGED schedSide

\* KillTask under the executor lock
KillTaskLocked ==
    /\ Alive /\ kt.pc = "lock"
    /\ killPodForTask(kt.id, "TaskKilled")
    /\ kt' = IdleCall
    /\ UNCHANGED <<taskInfos, state, done, panicked, conn, lt, sd, cont, pump, sent>>
    /\ UNCHANGED schedSide

\* ---- FrameworkMessage
\* strings are sequences of characters
TaskLostPrefix == <<"t", "a", "s", "k", "-", "l", "o", "s", "t", ":">>
Messages == {TaskLostPrefix, TaskLostPrefix \o <<"1">>, <<"t", "a", "s", "k">>, <<>>}
\* a HasPrefix that takes its arguments in the other order
HasPrefixSwapped(s, prefix) == Len(prefix) >= Len(s) /\ SubSeq(prefix, 1, Len(s)) = s

\* strings.HasPrefix(s, prefix)
HasPrefix(s, prefix) == Len(s) >= Len(prefix) /\ SubSeq(s, 1, Len(prefix)) = prefix
\* the task id a string names, 0 when none of the run
TaskIdOf(str) == IF str = <<"1">> THEN 1 ELSE IF str = <<"2">> THEN 2 ELSE 0

\* FrameworkMessage
FrameworkMessage(message) ==
    /\ Alive
    /\ IF ~isDone /\ isConnected /\ HasPrefix(TaskLostPrefix, message) /\ Len(message) > 10
          /\ TaskIdOf(SubSeq(message, 11, Len(message))) \in TaskIds
       THEN reportLostTask(TaskIdOf(SubSeq(message, 11, Len(message))), "TaskLostAck")
       ELSE UNCHANGED <<ktasks, kpods, updateChan, outgoing>>
    /\ UNCHANGED <<taskInfos, state, done, panicked, conn, lt, kt, sd, cont, pump, sent>>
    /\ UNCHANGED schedSide

\* ---- Shutdown
\* Shutdown, up to close(k.done)
Shutdown ==
    /\ Alive /\ sd = "idle"
    /\ IF isDone THEN UNCHANGED <<done, sd>> ELSE done' = TRUE /\ sd' = "lock"
    /\ UNCHANGED <<taskInfos, state, panicked, ktasks, kpods, updateChan, outgoing,
                   conn, lt, kt, cont, pump, sent>>
    /\ UNCHANGED schedSide

\* Shutdown under the executor lock: the task table is replaced by an empty one
ShutdownClear ==
    /\ Alive /\ sd = "lock"
    /\ ktasks' = [t \in TaskIds |-> NoKuberTask]
    /\ sd' = "push"
    /\ UNCHANGED <<taskInfos, state, done, panicked, kpods, updateChan, outgoing,
                   conn, lt, kt, cont, pump, sent>>
    /\ UNCHANGED schedSide

\* Shutdown: the empty pod set goes to the kubelet
ShutdownPush ==
    /\ Alive /\ sd = "push"
    /\ updateChan' = Push({})
    /\ sd' = "kill"
    /\ UNCHANGED <<taskInfos, state, done, panicked, ktasks, kpods, outgoing,
                   conn, lt, kt, cont, pump, sent>>
    /\ UNCHANGED schedSide

\* Shutdown: KillKubeletContainers, then the deferred swap to doneState; Shutdown returns
ShutdownReturn ==
    /\ Alive /\ sd = "kill"
    /\ state' = "done"
    /\ sd' = "idle"
    /\ UNCHANGED <<taskInfos, done, panicked, ktasks, kpods, updateChan, outgoing,
                   conn, lt, kt, cont, pump, sent>>
    /\ UNCHANGED schedSide

\* ---- sendLoop
\* a loop that goes on to receive whatever the state is
ConnectedAlways == TRUE

\* sendLoop: the isConnected check at the top of a round
SeesConnected == isConnected

\* sendLoop, top of a round that does not sleep: return when done is closed, go on to
\* receive when connected (a round that sleeps because disconnected leaves no trace)
sendLoopSelect ==
    /\ Alive /\ pump.pc = "select"
    /\ done \/ SeesConnected
    /\ pump' = [pump EXCEPT !.pc = IF done THEN "exit" ELSE "recv"]
    /\ UNCHANGED <<taskInfos, state, done, panicked, ktasks, kpods, updateChan, outgoing,
                   conn, lt, kt, sd, cont, sent>>
    /\ UNCHANGED schedSide

\* sendLoop: sender, ok := <-k.outgoing
sendLoopRecv ==
    /\ Alive /\ pump.pc = "recv" /\ outgoing # <<>>
    /\ pump' = [pc |-> "sender", sender |-> Head(outgoing)]
    /\ outgoing' = Tail(outgoing)
    /\ UNCHANGED <<taskInfos, state, done, panicked, ktasks, kpods, updateChan,
                   conn, lt, kt, sd, cont, sent>>
    /\ UNCHANGED schedSide

\* a loop that drops the closure whose send failed
AfterErrorDrops == "select"

\* sendLoop: where the loop goes when the send failed without DRIVER_ABORTED
AfterError == "requeue"

\* sendLoop: sender() is invoked; result is what the driver returns
sendLoopSend(result) ==
    /\ Alive /\ pump.pc = "sender"
    /\ sent' = [status |-> pump.sender, result |-> result]
    /\ pump' = IF result = "ok" THEN [pc |-> "select", sender |-> NoStatus]
               ELSE IF result = "aborted" THEN [pc |-> "exit", sender |-> NoStatus]
               ELSE IF AfterError = "requeue" THEN [pump EXCEPT !.pc = "requeue"]
               ELSE [pc |-> "select", sender |-> NoStatus]
    /\ UNCHANGED <<taskInfos, state, done, panicked, ktasks, kpods, updateChan, outgoing,
                   conn, lt, kt, sd, cont>>
    /\ UNCHANGED schedSide

\* sendLoop: the select that puts the failed closure back, or gives up when done is closed
sendLoopRequeue ==
    /\ Alive /\ pump.pc = "requeue"
    /\ \/ done /\ UNCHANGED outgoing
       \/ Room /\ outgoing' = Append(outgoing, pump.sender)
    /\ pump' = [pc |-> "select", sender |-> NoStatus]
    /\ UNCHANGED <<taskInfos, state, done, panicked, ktasks, kpods, updateChan,
                   conn, lt, kt, sd, cont, sent>>
    /\ UNCHANGED schedSide

\* ---- the executor's callbacks and launch continuations, with its driver and kubelet;
\* sendLoop is not scheduled, so outgoing keeps every status queued so far
NextExec ==
    \/ ExecutorRegistered
    \/ Reregistered
    \/ Disconnected
    \/ ConnectionSwap
    \/ \E ti \in taskInfos : LaunchTask(ti)
    \/ LaunchTaskDecode
    \/ LaunchTaskRecord
    \/ \E c \in ContIds, outcome \in {"ok", "postFail", "marshalFail"} : launchTask(c, outcome)
    \/ \E c \in ContIds : launchTaskBound(c)
    \/ \E c \in ContIds : GraceExpires(c)
    \/ \E c \in ContIds, info \in {"err", "notRunning", "marshalFail", "running"} :
          waitForRunningPod(c, info)
    \/ \E c \in ContIds : reportRunning(c)
    \/ \E c \in ContIds : reportLost(c)
    \/ \E c \in ContIds : checkForLostPodTask(c)
    \/ \E ti \in taskInfos : KillTask(ti.id)
    \/ KillTaskCheck
    \/ KillTaskLocked
    \/ \E message \in Messages : FrameworkMessage(message)
    \/ Shutdown
    \/ ShutdownClear
    \/ ShutdownPush
    \/ ShutdownReturn

\* one task, sent with data that decodes to pod p1 and with data that does not decode
InitExec ==
    /\ NewPluginConfig({}, {}) /\ lingerTTL = 0
    /\ New({[id |-> 1, pod |-> "p1"], [id |-> 1, pod |-> None]})

SpecExec == InitExec /\ [][NextExec]_vars

\* ---- the components of SpecExec
\* launches and kills while the executor runs: every callback but Shutdown, and the
\* launch continuation up to its TASK_RUNNING or TASK_LOST report (sendLoop is not
\* scheduled, so the outbox is full by then and the liveness check after it would block)
NextLaunch ==
    \/ ExecutorRegistered
    \/ Reregistered
    \/ Disconnected
    \/ ConnectionSwap
    \/ \E ti \in taskInfos : LaunchTask(ti)
    \/ LaunchTaskDecode
    \/ LaunchTaskRecord
    \/ \E c \in ContIds, outcome \in {"ok", "postFail", "marshalFail"} : launchTask(c, outcome)
    \/ \E c \in ContIds : launchTaskBound(c)
    \/ \E c \in ContIds : GraceExpires(c)
    \/ \E c \in ContIds, info \in {"err", "notRunning", "marshalFail", "running"} :
          waitForRunningPod(c, info)
    \/ \E c \in ContIds : reportRunning(c)
    \/ \E c \in ContIds : reportLost(c)
    \/ \E ti \in taskInfos : KillTask(ti.id)
    \/ KillTaskCheck
    \/ KillTaskLocked
    \/ \E message \in Messages : FrameworkMessage(message)

SpecLaunch == InitExec /\ [][NextLaunch]_vars

\* Shutdown against the launches: the connection callbacks, LaunchTask with its
\* continuation and Shutdown; the framework kills no task, a task goes when it is lost
NextShutdown ==
    \/ ExecutorRegistered
    \/ Reregistered
    \/ Disconnected
    \/ ConnectionSwap
    \/ \E ti \in taskInfos : LaunchTask(ti)
    \/ LaunchTaskDecode
    \/ LaunchTaskRecord
    \/ \E c \in ContIds, outcome \in {"ok", "postFail", "marshalFail"} : launchTask(c, outcome)
    \/ \E c \in ContIds : launchTaskBound(c)
    \/ \E c \in ContIds : GraceExpires(c)
    \/ \E c \in ContIds, info \in {"err", "notRunning", "marshalFail", "running"} :
          waitForRunningPod(c, info)
    \/ \E c \in ContIds : reportRunning(c)
    \/ \E c \in ContIds : reportLost(c)
    \/ \E c \in ContIds : checkForLostPodTask(c)
    \/ \E message \in Messages : FrameworkMessage(message)
    \/ Shutdown
    \/ ShutdownClear
    \/ ShutdownPush
    \/ ShutdownReturn

SpecShutdown == InitExec /\ [][NextShutdown]_vars

\* the driver's callbacks against each other: the connection callbacks, LaunchTask,
\* KillTask, FrameworkMessage and Shutdown, with the launch continuation as far as its
\* poll for the running pod (the pod is not seen running and the grace period lasts)
NextCallbacks ==
    \/ ExecutorRegistered
    \/ Reregistered
    \/ Disconnected
    \/ ConnectionSwap
    \/ \E ti \in taskInfos : LaunchTask(ti)
    \/ LaunchTaskDecode
    \/ LaunchTaskRecord
    \/ \E c \in ContIds, outcome \in {"ok", "postFail", "marshalFail"} : launchTask(c, outcome)
    \/ \E c \in ContIds : launchTaskBound(c)
    \/ \E ti \in taskInfos : KillTask(ti.id)
    \/ KillTaskCheck
    \/ KillTaskLocked
    \/ \E message \in Messages : FrameworkMessage(message)
    \/ Shutdown
    \/ ShutdownClear
    \/ ShutdownPush
    \/ ShutdownReturn

\* one task, sent with data that decodes to pod p1
InitRelaunch ==
    /\ NewPluginConfig({}, {}) /\ lingerTTL = 0
    /\ New({[id |-> 1, pod |-> "p1"]})

SpecCallbacks == InitRelaunch /\ [][NextCallbacks]_vars

\* ---- the status pump: sendLoop with the connection callbacks, Shutdown, and, as the
\* producers of status updates, the launches that are refused before the task is recorded
NextPump ==
    \/ ExecutorRegistered
    \/ Reregistered
    \/ Disconnected
    \/ ConnectionSwap
    \/ \E ti \in taskInfos : LaunchTask(ti)
    \/ LaunchTaskDecode
    \/ Shutdown
    \/ ShutdownClear
    \/ ShutdownPush
    \/ ShutdownReturn
    \/ sendLoopSelect
    \/ sendLoopRecv
    \/ \E result \in {"ok", "err", "aborted"} : sendLoopSend(result)
    \/ sendLoopRequeue

\* one task, sent with data that does not decode
InitPump ==
    /\ NewPluginConfig({}, {}) /\ lingerTTL = 0
    /\ New({[id |-> 1, pod |-> None]})

SpecPump == InitPump /\ [][NextPump]_vars

\* the status pump with the scheduling the Go runtime gives: sendLoop, and every callback
\* that has started, keep taking steps; when callbacks arrive and what the driver
\* answers to a send is up to the driver
FairPump ==
    /\ WF_vars(sendLoopSelect)
    /\ WF_vars(sendLoopRecv)
    /\ WF_vars(\E result \in {"ok", "err", "aborted"} : sendLoopSend(result))
    /\ WF_vars(sendLoopRequeue)
    /\ WF_vars(ConnectionSwap)
    /\ WF_vars(LaunchTaskDecode)
    /\ WF_vars(ShutdownClear)
    /\ WF_vars(ShutdownPush)
    /\ WF_vars(ShutdownReturn)

SpecPumpFair == InitPump /\ [][NextPump]_vars /\ FairPump

\* ---- launches, kills and the status pump of a registered executor whose driver
\* accepts every send, inside the launch grace period: sendLoop drains outgoing, so a
\* run can queue more statuses than the channel holds
NextRelaunch ==
    \/ ExecutorRegistered
    \/ ConnectionSwap
    \/ \E ti \in taskInfos : LaunchTask(ti)
    \/ LaunchTaskDecode
    \/ LaunchTaskRecord
    \/ \E c \in ContIds, outcome \in {"ok", "postFail", "marshalFail"} : launchTask(c, outcome)
    \/ \E c \in ContIds : launchTaskBound(c)
    \/ \E c \in ContIds, info \in {"err", "notRunning", "marshalFail", "running"} :
          waitForRunningPod(c, info)
    \/ \E c \in ContIds : reportRunning(c)
    \/ \E c \in ContIds : reportLost(c)
    \/ \E c \in ContIds : checkForLostPodTask(c)
    \/ \E ti \in taskInfos : KillTask(ti.id)
    \/ KillTaskCheck
    \/ KillTaskLocked
    \/ sendLoopSelect
    \/ sendLoopRecv
    \/ sendLoopSend("ok")

SpecRelaunch == InitRelaunch /\ [][NextRelaunch]_vars

\* ---- one launch and the status pump of an executor whose driver may fail a send:
\* nothing removes the task, so TASK_STARTING and TASK_RUNNING are enqueued once each,
\* in that order
NextResend ==
    \/ ExecutorRegistered
    \/ ConnectionSwap
    \/ \E ti \in taskInfos : LaunchTask(ti)
    \/ LaunchTaskDecode
    \/ LaunchTaskRecord
    \/ \E c \in ContIds, outcome \in {"ok", "postFail", "marshalFail"} : launchTask(c, outcome)
    \/ \E c \in ContIds : launchTaskBound(c)
    \/ \E c \in ContIds, info \in {"err", "notRunning", "marshalFail", "running"} :
          waitForRunningPod(c, info)
    \/ \E c \in ContIds : reportRunning(c)
    \/ sendLoopSelect
    \/ sendLoopRecv
    \/ \E result \in {"ok", "err"} : sendLoopSend(result)
    \/ sendLoopRequeue

SpecResend == InitRelaunch /\ [][NextResend]_vars

\* ------------------------------------------------------------------ claims
\* the pod tasks that hold a claim on offer o (Schedule assigned it, nothing released it)
Holders(o) == {t \in TaskIds : tasks[t].offer = o}

\* a claim on o was taken in this step: a task newly holds it, or it was declined
ClaimTaken(o) == Holders(o)' \ Holders(o) # {} \/ declined'[o] > declined[o]

\* C1: the acquired flag is 0 or 1; an Acquire succeeds only on a flag of 0 and leaves it
\* 1, so of competing Acquires one wins; until a Release an offer has at most one claimant:
\* at most one task holds it, and it is never both held by a task and declined
C1_ExclusiveClaim ==
    /\ [](\A o \in OfferIds :
            /\ acquired[o] \in {0, 1}
            /\ Cardinality(Holders(o)) <= 1
            /\ Holders(o) # {} => acquired[o] = 1 /\ declined[o] = 0)
    /\ [][\A o \in OfferIds : ClaimTaken(o) => acquired[o] = 0 /\ acquired'[o] = 1]_vars

\* a task holds the offer while a Delete that lost the Acquire has armed its deferred
\* decline, and the other pod's Schedule found nothing to acquire
C1_Witness ==
    /\ Holders("o2") # {}
    /\ \E t \in timers : t.id = "o2"
    /\ sl.err = "noSuitableOffers"
    /\ \E t \in Holders("o2") : tasks[t].pod # sl.name

\* the registered tasks of pod p
TasksOf(p) == {t \in TaskIds : Registered(t) /\ tasks[t].pod = p}

\* C2: in every reachable state each pod key has at most one registered task, and it is
\* the one taskForPod finds; a step registers a task for a pod only when taskForPod found
\* none for it
C2_OneTaskPerPod ==
    /\ [](\A p \in PodNames :
            /\ Cardinality(TasksOf(p)) <= 1
            /\ TasksOf(p) = IF taskForPod(p) = 0 THEN {} ELSE {taskForPod(p)})
    /\ [][\A p \in PodNames : TasksOf(p)' \ TasksOf(p) # {} => taskForPod(p) = 0]_vars

\* the pod's first task was unregistered by deleteOne, Schedule registered a fresh one
\* for it and it waits for Bind while a deferred decline of the offer is pending
C2_Witness ==
    /\ tasks[1] = NoTask
    /\ TasksOf("p1") = {2}
    /\ sl.name = "p1" /\ sl.pc = "bind"
    /\ declined["o2"] = 0 /\ timers # {}

\* the step in which Bind returns success
BindSucceeds == sl.pc = "launch" /\ sl'.pc = "next"

\* the offer of the task Bind is working on
BoundOffer == getTask(taskForPod(sl.name)).offer

\* C3 as stated: when Bind returns success the offer it launched with is expired-lingering
\* in the registry, or absent when LingerTTL is 0, and the task carries Launched
C3_AsStated ==
    [][BindSucceeds =>
         /\ offers'[BoundOffer] = IF lingerTTL > 0 THEN "expired" ELSE None
         /\ getTask(taskForPod(sl.name))'.launched]_vars

\* C3: when Bind returns success the offer it launched with is no longer live in the
\* registry (expired-lingering or absent, whatever LingerTTL is) and the task carries
\* Launched; from then on Walk never passes that offer and no Schedule can pick it
C3_InvalidatedOnSuccess ==
    /\ [][BindSucceeds =>
            /\ offers'[BoundOffer] \in {"expired", None}
            /\ getTask(taskForPod(sl.name))'.launched]_vars
    /\ [](\A o \in OfferIds : launchOk[o] > 0 =>
            /\ ~WalkPasses(o)
            /\ \A p \in PodNames : o \notin PlacementChoices(p))

\* Bind has returned success for a pod's task, and a later Schedule of the other pod found
\* no offer to pick
C3_Witness ==
    /\ launchOk["o2"] = 1
    /\ \E t \in TaskIds : tasks[t].launched /\ tasks[t].offer = "o2" /\ tasks[t].pod # sl.name
    /\ sl.from = "Schedule" /\ sl.err = "noSuitableOffers"

\* Schedule returned a host for the pod of the loop and Bind has not taken the lock yet
AwaitsBind == sl.pc = "bind"

\* while the loop waits between Schedule and Bind, another goroutine works on its task
TaskTouchedBeforeBind ==
    /\ AwaitsBind /\ sl' = sl
    /\ taskForPod(sl.name) # 0
    /\ tasks'[taskForPod(sl.name)] # tasks[taskForPod(sl.name)]

\* C4: between Schedule(P) returning a host and Bind(P) only deleteOne(P) touches P's task:
\* it releases the task's offer and unregisters the cleared task; nothing registers a task
\* for P before Bind(P), which then finds none, returns noSuchPod and launches nothing
C4_DeleteCancelsBind ==
    /\ [][TaskTouchedBeforeBind =>
            /\ acquired'[BoundOffer] = 0
            /\ tasks'[taskForPod(sl.name)] = NoTask
            /\ taskForPod(sl.name)' = 0]_vars
    /\ [][AwaitsBind /\ taskForPod(sl.name) = 0 =>
            /\ taskForPod(sl.name)' = 0
            /\ launchOk' = launchOk
            /\ sl' = sl \/ (sl'.pc = "error" /\ sl'.err = "noSuchPod" /\ ~sl'.called)]_vars

\* Bind has returned noSuchPod for a pod deleted after its Schedule; the offer it had
\* accepted is live and free again
C4_Witness ==
    /\ sl.from = "Bind" /\ sl.err = "noSuchPod"
    /\ taskForPod(sl.name) = 0
    /\ offers["o2"] = "live" /\ acquired["o2"] = 0 /\ launchOk["o2"] = 0

\* the step in which Bind returns to the loop
BindReturns == sl.pc \in {"bind", "launch"} /\ sl'.pc \in {"next", "error"}

\* the task Bind finds for the pod of the loop is pending
BindFindsTask == BindRefusal(sl.name) = None

\* Bind launched: LaunchTasks succeeded with the accepted offer, the task is Launched
BindLaunched ==
    /\ sl'.pc = "next"
    /\ launchOk' = [launchOk EXCEPT ![BoundOffer] = @ + 1]
    /\ getTask(taskForPod(sl.name))'.launched

\* what a failed Bind leaves behind: nothing launched, the claim released, the task info
\* cleared, the registry as it was
FailedBindCleanup ==
    /\ sl'.pc = "error"
    /\ launchOk' = launchOk
    /\ acquired'[BoundOffer] = 0
    /\ getTask(taskForPod(sl.name))' = ClearTaskInfo(getTask(taskForPod(sl.name)))
    /\ ~getTask(taskForPod(sl.name))'.launched
    /\ offers' = offers /\ delayed' = delayed

\* C5 as stated: once Schedule returned a host, a Bind that finds the pod's task either
\* launches or fails because the offer is missing or expired, without calling LaunchTasks
C5_AsStated ==
    [][BindReturns /\ BindFindsTask =>
         \/ BindLaunched
         \/ /\ FailedBindCleanup
            /\ sl'.err = "expiredOffer" /\ ~sl'.called /\ ~OfferStillValid(BoundOffer)]_vars

\* C5: once Schedule returned a host, a Bind that finds the pod's task goes on to launch
\* only with an offer that is present and not expired, and then either launches, or fails
\* because the offer is missing or expired (LaunchTasks not called), because preparing the
\* task failed (LaunchTasks not called) or because LaunchTasks failed; every failure
\* releases the claim, clears the task info and leaves the registry contents unchanged
C5_BindOutcomes ==
    /\ [][BindReturns /\ BindFindsTask =>
            \/ BindLaunched
            \/ /\ FailedBindCleanup
               /\ \/ sl'.err = "expiredOffer" /\ ~sl'.called /\ ~OfferStillValid(BoundOffer)
                  \/ sl'.err = "prepareFail" /\ ~sl'.called
                  \/ sl'.err = "launchFail" /\ sl'.called]_vars
    /\ [][sl.pc = "bind" /\ sl'.pc = "launch" =>
            offers[BoundOffer] = "live" /\ expiration[BoundOffer] >= 0]_vars

\* Bind failed on an offer that expired after Schedule had accepted it: the task is still
\* registered, without offer, and the offer lingers unclaimed
C5_Witness ==
    /\ sl.from = "Bind" /\ sl.err = "expiredOffer"
    /\ taskForPod(sl.name) # 0
    /\ getTask(taskForPod(sl.name)).offer = None
    /\ offers["o2"] = "expired" /\ acquired["o2"] = 0 /\ launchOk["o2"] = 0

\* a caller of Delete does its Acquire in this step
DeleteAcquires(c) == del[c].pc = "got" /\ del'[c].pc = "expire"

\* the deferred declines armed in this step
NewTimers == timers' \ timers

\* C6: Delete on a live offer declines at once exactly when its Acquire wins (nobody had
\* acquired the offer); when the offer was acquired it declines nothing and defers the
\* decline by 2*TTL; a decline outside Delete is issued only by a deferred decline whose
\* delay has passed, and any decline only by an Acquire that wins; an offer used in a
\* successful LaunchTasks is never declined
C6_DeclineOnlyUnclaimed ==
    /\ [][\A c \in Callers : DeleteAcquires(c) /\ del[c].kind = "live" =>
            IF acquired[del[c].id] = 0
            THEN declined' = [declined EXCEPT ![del[c].id] = @ + 1] /\ NewTimers = {}
            ELSE /\ declined' = declined
                 /\ NewTimers \subseteq {[id |-> del[c].id, left |-> deferredDeclineTtlFactor * TTL]}
                 /\ \E t \in timers' : t.id = del[c].id /\ t.left = deferredDeclineTtlFactor * TTL]_vars
    /\ [][\A o \in OfferIds : declined'[o] > declined[o] /\ del' = del =>
            [id |-> o, left |-> 0] \in timers \ timers']_vars
    /\ [][\A o \in OfferIds : declined'[o] > declined[o] => acquired[o] = 0 /\ acquired'[o] = 1]_vars
    /\ [](\A o \in OfferIds : launchOk[o] > 0 => declined[o] = 0)

\* the offer was used in a successful launch while a Delete had found it claimed; the
\* deferred decline of that Delete is due
C6_Witness ==
    /\ launchOk["o2"] = 1 /\ declined["o2"] = 0
    /\ [id |-> "o2", left |-> 0] \in timers
    /\ \A c \in Callers : del[c].pc = "idle"

\* the offer is in the registry as a live offer
Live(o) == offers[o] = "live"

\* the flag of o goes 1 -> 0 in this step
FlagReset(o) == acquired[o] = 1 /\ acquired'[o] = 0

\* the flag of o goes 0 -> 1 in this step
FlagSet(o) == acquired[o] = 0 /\ acquired'[o] = 1

\* the task holding o gives up its claim in this step (the Release calls of bind and
\* deleteOne, each followed by ClearTaskInfo or unregistration)
HolderReleases(o) == Holders(o) # {} /\ Holders(o)' = {}

DeleteRecorded(p) == store[p].tag = "DELETE"

\* yield returns the pod it popped to the scheduling loop in this step
YieldHandsOver == sl.pc = "yielded" /\ sl'.pc = "sched"

\* C8: a recorded DELETE of P stays the last event of P until P is added again, and while
\* it is, yield hands over no P: an entry of P it pops from podQueue is skipped (Poll for
\* POP fails) unless deleteOne has dequeued it before
C8_DeletedNotYielded ==
    /\ [][\A p \in PodNames : DeleteRecorded(p) /\ ~DeleteRecorded(p)' =>
            store'[p].tag = "ADD" /\ store'[p].uid = store[p].uid + 1]_vars
    /\ [][YieldHandsOver => Poll(sl.name, "POP") /\ ~DeleteRecorded(sl.name)]_vars
    /\ [][sl.pc = "yielded" /\ DeleteRecorded(sl.name) /\ sl' # sl => sl' = IdleLoop]_vars

\* yield has popped an entry of a pod whose DELETE was recorded while the entry was
\* queued; the deleter has not taken the DELETE from its channel yet
C8_Witness ==
    /\ sl.pc = "yielded" /\ DeleteRecorded(sl.name)
    /\ updates # <<>> /\ Head(updates).name = sl.name /\ Head(updates).uid = sl.uid

\* listener object l is in the listener queue
Queued(l) == \E p \in PodNames : listeners[p] = l

\* C7: the channel of a listener is closed at most once; a listener object is never both
\* queued and being processed, also when Listen replaced it under the same id meanwhile;
\* a listener whose channel was closed is neither queued nor processed again
C7_ClosedOnce ==
    \A l \in ListenerIds :
        /\ lobj[l].closed <= 1
        /\ ~(Queued(l) /\ notifier.l = l)
        /\ lobj[l].closed > 0 => ~Queued(l) /\ notifier.l # l

\* two listeners registered one after the other under the same pod key have both been
\* notified, by sweeps that saw the same version of the id set
C7_Witness ==
    /\ lobj[1].closed = 1 /\ lobj[2].closed = 1
    /\ lobj[1].pod = lobj[2].pod
    /\ lobj[1].saw = lobj[2].saw

\* the channel of listener l is closed in this step
Notified(l) == lobj'[l].closed > lobj[l].closed

\* C9: a listener is notified only by a sweep of the notification loop that works on it,
\* and only if some id of the cached id set resolves to an offer that is in the registry,
\* has not expired and is accepted by the listener's filter
C9_NotifiedOnlyOnMatch ==
    [][\A l \in ListenerIds : Notified(l) =>
         /\ notifier.pc = "popped" /\ notifier.l = l /\ lobj[l].pod # None
         /\ \E o \in cache'.cached :
              /\ Get(o) # None
              /\ ~HasExpired(Get(o), o)
              /\ Accepts(l, o)]_vars

\* a listener was notified at a later sweep, after a sweep that found no offer for it
C9_Witness == \E l \in ListenerIds : lobj[l].closed = 1 /\ lobj[l].age > 0

\* the expiration time of o has passed, or o is no live offer of the registry
ExpiredOrGone(o) == offers[o] # "live" \/ expiration[o] < 0

\* C11: Schedule assigns a task only an offer Walk passed: live in the registry with its
\* expiration time not passed, whether or not the aging loop has worked on it; a Bind
\* that finds the task's offer past its expiration time, lingering or gone rejects it
C11_ExpiredNeverUsed ==
    /\ [][\A o \in OfferIds : Holders(o)' \ Holders(o) # {} => ~ExpiredOrGone(o)]_vars
    /\ [](\A o \in OfferIds : ExpiredOrGone(o) => ~WalkPasses(o))
    /\ [][sl.pc = "bind" /\ BindFindsTask /\ sl' # sl /\ ExpiredOrGone(BoundOffer) =>
            sl'.pc = "error" /\ sl'.err = "expiredOffer"]_vars

\* Bind rejected an offer whose expiration time has passed while the aging loop has not
\* worked on it yet: it is still a live entry of the registry
C11_Witness ==
    /\ sl.from = "Bind" /\ sl.err = "expiredOffer"
    /\ offers["o2"] = "live" /\ expiration["o2"] < 0
    /\ \A c \in Callers : del[c].pc = "idle"

\* C12: an offer that stops being live (Delete, Invalidate, the aging loop) leaves the
\* registry at once when LingerTTL is 0, and becomes an expired-lingering entry otherwise;
\* a lingering entry has no details, is expired and refuses Acquire, and it leaves the
\* registry only when the aging loop finds a linger deadline of the offer due
C12_LingerOrVanish ==
    /\ [][\A o \in OfferIds : offers[o] = "live" /\ offers'[o] # "live" =>
            offers'[o] = IF lingerTTL > 0 THEN "expired" ELSE None]_vars
    /\ [](\A o \in OfferIds : offers[o] = "expired" =>
            /\ lingerTTL > 0
            /\ ~HasDetails(Get(o)) /\ HasExpired(Get(o), o) /\ ~AcquireWins(Get(o), o))
    /\ [][\A o \in OfferIds : offers[o] = "expired" /\ offers'[o] # "expired" =>
            /\ offers'[o] = None
            /\ [kind |-> "expired", id |-> o, left |-> 0] \in delayed \ delayed']_vars

\* the offer lingers, expired and unclaimed, and a Schedule that walked the registry
\* meanwhile found nothing to acquire
C12_Witness ==
    /\ lingerTTL > 0 /\ offers["o2"] = "expired" /\ acquired["o2"] = 0
    /\ sl.from = "Schedule" /\ sl.err = "noSuitableOffers"

\* yield pops entry e from podQueue in this step
YieldPops(e) ==
    /\ sl.pc = "next" /\ sl'.pc = "yielded"
    /\ e \in podQueue \ podQueue'
    /\ sl'.name = e.name /\ sl'.uid = e.uid

\* the error handler returns in this step
ErrorHandled == sl.pc \in {"error", "locked"} /\ sl'.pc = "next"

\* the break-out channel of entry e is closed
BrokenOut(e) == e.notify # 0 /\ lobj[e.notify].closed > 0

\* C13: the error handler registers a listener, and attaches a break-out channel to the
\* pod it requeues with the back-off delay, after noSuitableOffers and after no other
\* error; an entry whose channel is closed is ready for yield at the head of podQueue
\* whatever is left of its delay, and yield pops an entry before its delay has elapsed
\* only when its channel is closed
C13_BreakoutOnlyNoOffers ==
    /\ [][ErrorHandled =>
            /\ \A e \in podQueue' \ podQueue :
                 /\ e.left = BackoffDelay(sl.name) /\ e.left > 0
                 /\ e.notify # 0 <=> sl.err = "noSuitableOffers"
                 /\ e.notify # 0 => listeners'[e.name] = e.notify /\ e.notify = nextL
            /\ sl.err # "noSuitableOffers" => nextL' = nextL /\ listeners' = listeners]_vars
    /\ [](\A e \in podQueue :
            BrokenOut(e) /\ (\A other \in podQueue : e.left <= other.left) => Poppable(e))
    /\ [][\A e \in podQueue : YieldPops(e) /\ e.left > 0 => BrokenOut(e)]_vars

\* the pod requeued after noSuitableOffers can be yielded although its back-off delay has
\* not elapsed: a matching offer arrived and the sweep closed the listener's channel
C13_Witness ==
    \E e \in podQueue :
        /\ e.left > 0 /\ BrokenOut(e) /\ Poppable(e)
        /\ sl.pc = "next" /\ offers["o2"] = "live" /\ acquired["o2"] = 0

\* ---- executor claims
\* a step of the LaunchTask callback, and the task id it is about
LaunchTaskStep == lt' # lt
LaunchTaskId == IF lt.pc = "idle" THEN lt'.id ELSE lt.id
LaunchTaskPod == IF lt.pc = "idle" THEN lt'.pod ELSE lt.pod

\* the tables, the kubelet's pod set and the continuations stay as they are
NothingLaunched ==
    /\ ktasks' = ktasks /\ kpods' = kpods /\ updateChan' = updateChan /\ cont' = cont

\* C14 as stated: a LaunchTask for a task id on record (sent again with data that
\* decodes) queues no status update, starts no continuation (no binding POST) and leaves
\* the tables alone, connected or not
C14_AsStated ==
    [][LaunchTaskStep /\ ktasks[LaunchTaskId].found /\ LaunchTaskPod # None =>
            NothingLaunched /\ outgoing' = outgoing]_vars

\* C14: a LaunchTask for a task id on record starts no continuation (no binding POST)
\* and leaves the task table, the pod table and the kubelet's pod set alone; at the
\* duplicate check under the lock it queues no status update; the only status update the
\* callback queues is the TASK_FAILED it sends, before that check, when the executor is
\* not connected or the task's data cannot be decoded
C14_DuplicateIgnored ==
    [][LaunchTaskStep /\ ktasks[LaunchTaskId].found =>
            /\ NothingLaunched
            /\ lt.pc = "lock" => outgoing' = outgoing
            /\ outgoing' # outgoing =>
                 /\ lt.pc = "isConnected"
                 /\ outgoing' = Append(outgoing, newStatus(lt.id, "TASK_FAILED",
                        IF state # "connected" THEN "ExecutorUnregistered"
                                               ELSE "UnmarshalTaskDataFailure"))]_vars

\* a second LaunchTask for task 1 stands at the duplicate check while the continuation
\* of the first launch waits for the pod to run
C14_Witness ==
    /\ lt.pc = "lock" /\ lt.id = 1 /\ ktasks[1].found
    /\ \E c \in ContIds : cont[c].id = 1 /\ cont[c].pc = "waitForRunningPod"
    /\ state = "connected" /\ ~done

\* _launchTask of continuation c gives up because launchGracePeriod is over, with the
\* task still on record under the pod name the launch gave it
GraceGivesUp(c) ==
    /\ cont[c].pc = "lost" /\ cont[c].expired /\ cont'[c] = NoCont
    /\ ktasks[cont[c].id].found
    /\ ktasks[cont[c].id].podName = GetPodFullName(cont[c].pod)

TaskLost(c) == newStatus(cont[c].id, "TASK_LOST", "LaunchTaskFailed")

\* the task of continuation c and its pod are off the tables after the step
Removed(c) ==
    /\ ~ktasks'[cont[c].id].found
    /\ GetPodFullName(cont[c].pod) \notin kpods'

\* the statuses queued by the step
Queued1 == IF Len(outgoing') > Len(outgoing)
           THEN SubSeq(outgoing', Len(outgoing) + 1, Len(outgoing')) ELSE <<>>

\* TASK_RUNNING is queued only by a continuation that saw the pod running, and a
\* continuation whose grace period is over while it polls never gets there
RunningOnlySeen ==
    /\ \A i \in 1..Len(Queued1) : Queued1[i].state = "TASK_RUNNING" =>
          \E c \in ContIds : /\ cont[c].pc = "running" /\ cont'[c].pc = "monitor"
                             /\ cont[c].id = Queued1[i].id /\ ~cont[c].expired
    /\ \A c \in ContIds : cont[c].pc = "waitForRunningPod" /\ cont[c].expired =>
          cont'[c].pc \in {"waitForRunningPod", "lost"}

\* C15 as stated: when the grace period is over with the task on record, exactly one
\* TASK_LOST is queued and the task and its pod are removed
C15_AsStated ==
    [][\A c \in ContIds : GraceGivesUp(c) =>
            outgoing' = Append(outgoing, TaskLost(c)) /\ Removed(c)]_vars

\* C15: when the grace period of a launch is over with the task still on record, the
\* task and its pod are removed from the tables and exactly one TASK_LOST is queued for
\* the task, unless Shutdown has closed done, when nothing is queued; TASK_RUNNING is
\* queued only by a continuation that saw the pod running before its grace period ended
C15_LostAfterGrace ==
    /\ [][\A c \in ContIds : GraceGivesUp(c) =>
            /\ Removed(c)
            /\ outgoing' = IF done THEN outgoing ELSE Append(outgoing, TaskLost(c))]_vars
    /\ [][RunningOnlySeen]_vars

\* the launch of task 1 reported TASK_STARTING and then, its pod never seen running,
\* TASK_LOST; the task and the pod are gone and the continuation has ended
C15_Witness ==
    /\ outgoing = <<newStatus(1, "TASK_STARTING", "CreateBindingSuccess"),
                    newStatus(1, "TASK_LOST", "LaunchTaskFailed")>>
    /\ ~ktasks[1].found /\ kpods = {} /\ ~done
    /\ \A c \in ContIds : cont[c] = NoCont

\* Shutdown has returned (its deferred swap to doneState is its last step)
ShutdownReturned == state = "done"

\* C16 as stated: once Shutdown has returned the task table is empty and the last pod
\* set sent to the kubelet is the empty one, whatever LaunchTask, KillTask or launch
\* continuation was in progress when Shutdown ran
C16_AsStated ==
    ShutdownReturned => (\A t \in TaskIds : ~ktasks[t].found) /\ updateChan.pods = {}

\* sendLoop invokes the closure it took from outgoing in this step
Invokes == pump.pc = "sender" /\ pump' # pump

\* C17 as stated: sendLoop invokes a queued send closure only while the executor state
\* is connected
C17_AsStated == [][Invokes => state = "connected"]_vars

\* the status updates the launches of SpecPump queue
StatusUpdates ==
    {newStatus(id, "TASK_FAILED", m) :
        id \in TaskIds, m \in {"ExecutorUnregistered", "UnmarshalTaskDataFailure"}}

\* the update is in the outbox or in sendLoop's hands
InPipe(u) ==
    \/ \E i \in 1..Len(outgoing) : outgoing[i] = u
    \/ pump.pc \in {"sender", "requeue"} /\ pump.sender = u

\* the update was handed to the driver and the driver took it
SentOk(u) == sent = [status |-> u, result |-> "ok"]

\* the executor ends up connected for good (and running: no callback panics), and the
\* driver never reports DRIVER_ABORTED
StaysConnected == <>[](state = "connected") /\ [](panicked = None)
NeverAborted == [](sent.result # "aborted")
\* sendLoop is never stuck putting a closure back into a full outbox
OutboxHasRoom == [](pump.pc = "requeue" => done \/ Room)
\* from some point on the driver accepts what it is handed
SendsSucceed == <>[](sent.result # "err")

Swaps(cb) == conn = cb /\ conn' = None

\* C19: the state changes only from disconnected to connected (Registered,
\* Reregistered), from connected to disconnected (Disconnected) and from anything to
\* done (the end of Shutdown); Registered and Reregistered while connected, and
\* Disconnected while disconnected, panic and leave the state as it is; done is final
C19_StateMachine ==
    /\ [][state' # state =>
            \/ /\ state = "disconnected" /\ state' = "connected"
               /\ Swaps("Registered") \/ Swaps("Reregistered")
            \/ state = "connected" /\ state' = "disconnected" /\ Swaps("Disconnected")
            \/ state' = "done" /\ sd = "kill" /\ sd' = "idle"]_vars
    /\ [][(Swaps("Registered") \/ Swaps("Reregistered")) /\ state = "connected" =>
            panicked' = "already connected?!" /\ state' = state]_vars
    /\ [][Swaps("Disconnected") /\ state = "disconnected" =>
            panicked' = "already disconnected?!" /\ state' = state]_vars
    /\ [][state = "done" => state' = "done"]_vars

\* a Reregistered that found the executor connected has panicked; the state is still
\* connected
C19_Witness == panicked = "already connected?!" /\ state = "connected" /\ ~done

\* a driver callback is invoked: the step from its entry to its isDone check
Invoked ==
    \/ ExecutorRegistered \/ Reregistered \/ Disconnected \/ Shutdown
    \/ \E ti \in taskInfos : LaunchTask(ti) \/ KillTask(ti.id)
    \/ \E message \in Messages : FrameworkMessage(message)

\* C20: a callback invoked after Shutdown has closed done returns at its isDone check:
\* the connection state, the task table, the pod table, what was pushed to the kubelet
\* and the outbox stay as they are, and no part of the callback is left to run
C20_DoneShortCircuits ==
    [][done /\ Invoked =>
          /\ UNCHANGED <<state, ktasks, kpods, updateChan, outgoing, done, panicked>>
          /\ conn' = None /\ lt' = lt /\ kt' = kt /\ sd' = sd]_vars

\* done is closed while the executor is still connected and still has task 1 in its
\* table, and every callback can be invoked: without the isDone check Registered would
\* panic, KillTask would remove the task and Shutdown would close done again
C20_Witness ==
    /\ done /\ panicked = None /\ state = "connected"
    /\ ktasks[1].found /\ sd = "lock"
    /\ conn = None /\ lt.pc = "idle" /\ kt.pc = "idle"

\* ---- error handler, scheduler and deleter claims
\* the back-off entry of pod p is deleted or rewritten in this step (an entry that only
\* grows old is not touched by the program)
Mutated(p) == backoff'[p] # backoff[p] /\ backoff'[p] # [backoff[p] EXCEPT !.old = TRUE]

\* the scheduler read lock is held by the error handler
RLockHeld == slock = "read"

\* C21 as stated: every deletion or update of a back-off entry happens while the
\* scheduler read lock is held
C21_AsStated == [][\A p \in PodNames : Mutated(p) => RLockHeld]_vars

\* C21: getBackoff's update of the pod's entry happens while the error handler holds the
\* scheduler read lock; the garbage collection deletes every old entry before the error
\* handler takes the lock, and nothing else touches the table
C21_UpdateUnderLock ==
    /\ [][\A p \in PodNames : Mutated(p) =>
            \/ /\ RLockHeld /\ sl.pc = "locked" /\ p = sl.name
               /\ backoff'[p] = [backoff |-> NextBackoff(BackoffDelay(p)), old |-> FALSE]
            \/ /\ ~RLockHeld /\ sl.pc = "error" /\ sl'.pc = "rlock"
               /\ backoff[p].old /\ backoff'[p] = NoEntry]_vars
    /\ [][sl.pc = "error" /\ sl'.pc = "rlock" =>
            \A p \in PodNames : backoff[p].old => backoff'[p] = NoEntry]_vars

\* the error handler has collected the entry that an earlier failure of p1 (the one that
\* registered a listener) had created, and does not hold the read lock yet
C21_Witness ==
    /\ sl.pc = "rlock" /\ ~RLockHeld /\ sl.name = "p1"
    /\ nextL > 1 /\ backoff["p1"] = NoEntry

\* Schedule returns in this step, and its placement acquired offer o
ScheduleAcquires(o) ==
    /\ sl.pc = "sched" /\ sl'.pc # "sched"
    /\ acquired[o] = 0 /\ acquired'[o] = 1

\* the offer held by the task of the pod being scheduled
HeldOffer == getTask(taskForPod(sl.name)).offer

BindRuns == sl.pc = "bind" /\ sl'.pc # "bind"

\* Bind finds no task for the pod, or a task that is not pending
NoPendingTask == taskForPod(sl.name) = 0 \/ getTask(taskForPod(sl.name)).state # "Pending"

\* Bind finds a pending task that holds no offer
NoOfferAccepted ==
    /\ taskForPod(sl.name) # 0 /\ getTask(taskForPod(sl.name)).state = "Pending"
    /\ ~HasAcceptedOffer(getTask(taskForPod(sl.name)))

\* Bind returns noSuchPod in this step and has not called LaunchTasks
ReturnsNoSuchPod ==
    /\ sl'.pc = "error" /\ sl'.err = "noSuchPod" /\ ~sl'.called
    /\ launchOk' = launchOk

HandlerStep == sl.pc \in {"error", "rlock", "locked"} /\ sl' # sl

\* the error is retryable and the pod's task is pending and not launched
RetryCase ==
    /\ sl.err # "noSuchPod"
    /\ podToTask[sl.name] # 0
    /\ tasks[podToTask[sl.name]].state = "Pending"
    /\ ~tasks[podToTask[sl.name]].launched

\* podQueue holds an entry for the pod uid the handler was called with
AlreadyQueued == \E e \in podQueue : e.name = sl.name /\ e.uid = sl.uid

\* C24: the error handler changes podQueue and registers a listener only in its retry
\* case (error not noSuchPod, task of the pod pending and not launched); in that case it
\* adds one entry for the pod with the back-off delay, unless an entry for the same pod
\* uid is queued already, and then the queue stays as it is
C24_RequeueOnlyPending ==
    /\ [][HandlerStep /\ ~(RetryCase /\ sl.pc = "locked") =>
            UNCHANGED <<podQueue, listeners, nextL, lobj>>]_vars
    /\ [][HandlerStep /\ RetryCase /\ sl.pc = "locked" =>
            IF AlreadyQueued THEN podQueue' = podQueue
            ELSE \E e \in podQueue' :
                    /\ podQueue' = podQueue \cup {e} /\ e \notin podQueue
                    /\ e.name = sl.name /\ e.uid = sl.uid
                    /\ e.left = BackoffDelay(sl.name)]_vars

\* the handler is about to requeue p1 after a failed launch while the entry of an earlier
\* failure is still queued; an error that is not retried has been handled before
C24_Witness ==
    /\ sl.pc = "locked" /\ sl.err = "launchFail" /\ RetryCase /\ AlreadyQueued
    /\ backoff[sl.name].backoff > 2

\* the task of pod p is launched and pending, or running
LaunchedOrRunning(p) ==
    /\ podToTask[p] # 0
    /\ \/ tasks[podToTask[p]].state = "Pending" /\ tasks[podToTask[p]].launched
       \/ tasks[podToTask[p]].state = "Running"

\* the task of pod p is in another state than pending or running
OtherState(p) ==
    podToTask[p] # 0 /\ tasks[podToTask[p]].state \notin {"Pending", "Running"}

\* C25: deleteOne on a pod whose task is pending and launched, or running, sets Deleted
\* on the task, calls KillTask for it once and changes nothing else of the task table;
\* Deleted is set, and KillTask called, in no other case: no task that was not launched
\* carries the flag, and for a task in another state deleteOne changes nothing
C25_DeleteKillsLaunched ==
    /\ [][\A p \in PodNames :
            ReconcileDeleted(p, 1) /\ LaunchedOrRunning(p) =>
                /\ tasks' = [tasks EXCEPT ![podToTask[p]].deleted = TRUE]
                /\ killed' = [killed EXCEPT ![podToTask[p]] = @ + 1]
                /\ podToTask' = podToTask]_vars
    /\ [][\A p \in PodNames :
            ReconcileDeleted(p, 1) /\ OtherState(p) =>
                UNCHANGED <<tasks, killed, podToTask>>]_vars
    /\ [][\A t \in TaskIds :
            killed'[t] # killed[t] \/ (tasks'[t].deleted /\ ~tasks[t].deleted) =>
                /\ tasks[t].launched /\ tasks[t].state \in {"Pending", "Running"}
                /\ killed'[t] = killed[t] + 1 /\ tasks'[t].deleted]_vars
    /\ [](\A t \in TaskIds : tasks[t].deleted => tasks[t].launched)

\* the running task of a deleted pod carries the flag, is still registered and was killed
\* once
C25_Witness ==
    \E p \in PodNames :
        /\ podToTask[p] # 0 /\ tasks[podToTask[p]].state = "Running"
        /\ tasks[podToTask[p]].deleted /\ killed[podToTask[p]] = 1

\* ---- listener ageing
\* the notification loop finishes its sweep for listener l in this step
Sweeps(l) == notifier.pc = "popped" /\ notifier.l = l /\ notifier'.pc = "idle"

\* the sweep sees the version of the id set that the listener saw last
SameVersion(l) == cache'.version = lobj[l].saw

\* no id of the set the sweep got resolves to an offer the listener accepts
NoMatch(l) == \A o \in cache'.cached : ~Matches(l, o)

\* another listener is queued under the pod key of listener l
Replaced(l) == listeners[lobj[l].pod] \notin {0, l}

\* C26 as stated: a sweep without a match that sees a changed version makes the listener
\* one older; a sweep that sees the same version puts it back in the queue as it is; at
\* age 12 it is not put back, and its channel stays open
C26_AsStated ==
    /\ [][\A l \in ListenerIds : Sweeps(l) /\ ~SameVersion(l) /\ NoMatch(l) =>
            lobj'[l].age = lobj[l].age + 1]_vars
    /\ [][\A l \in ListenerIds : Sweeps(l) /\ SameVersion(l) =>
            lobj'[l] = lobj[l] /\ listeners'[lobj[l].pod] = l]_vars
    /\ [](\A l \in ListenerIds : lobj[l].age >= offerListenerMaxAge =>
            ~Queued(l) /\ lobj[l].closed = 0)

\* C26: a sweep without a match that sees a changed version makes the listener one older
\* and leaves its channel open; it is offered back to the queue while its age is below
\* 12 and not at 12; a sweep that sees the same version offers it back as it is; an
\* offer back (KeepExisting) puts the listener in the queue unless another listener was
\* registered for the same pod meanwhile; a listener of age 12 is never queued or
\* processed again and its channel stays open
C26_ListenerAgeing ==
    /\ [][\A l \in ListenerIds : Sweeps(l) /\ ~SameVersion(l) /\ NoMatch(l) =>
            /\ lobj'[l] = [lobj[l] EXCEPT !.age = @ + 1, !.saw = cache'.version]
            /\ IF lobj'[l].age < offerListenerMaxAge
               THEN listeners'[lobj[l].pod] = l \/ (Replaced(l) /\ listeners' = listeners)
               ELSE listeners' = listeners /\ ~Queued(l)']_vars
    /\ [][\A l \in ListenerIds : Sweeps(l) /\ SameVersion(l) =>
            /\ lobj'[l] = lobj[l]
            /\ listeners'[lobj[l].pod] = l \/ (Replaced(l) /\ listeners' = listeners)]_vars
    /\ [](\A l \in ListenerIds :
            /\ lobj[l].age <= offerListenerMaxAge
            /\ lobj[l].age >= offerListenerMaxAge =>
                 ~Queued(l) /\ notifier.l # l /\ lobj[l].closed = 0)

\* the listener of p2 has reached age 12: it is out of the queue, no sweep works on it,
\* and its channel is open
C26_Witness ==
    /\ lobj[1].age = offerListenerMaxAge /\ lobj[1].closed = 0
    /\ ~Queued(1) /\ notifier.l # 1

\* ---- C27
\* the poll of continuation c ends without the pod seen running
PollGivesUp(c) == cont[c].pc = "waitForRunningPod" /\ cont'[c].pc = "lost"

\* _launchTask of continuation c is at reportLost with its task off the table
LostTaskGone(c) ==
    /\ cont[c].pc = "lost" /\ cont'[c] = NoCont
    /\ ~ktasks[cont[c].id].found

RunningQueued(id) ==
    {i \in 1..Len(outgoing) : outgoing[i].state = "TASK_RUNNING" /\ outgoing[i].id = id}

\* C28 as stated, for what the outgoing channel holds: TASK_RUNNING is enqueued at most
\* once for a task id, so the channel never holds two of them
C28_AsStated == \A id \in TaskIds : Cardinality(RunningQueued(id)) <= 1

\* continuation c reports TASK_RUNNING in the step
ReportsRunning(c) == cont[c].pc = "running" /\ cont'[c].pc = "monitor"

\* continuation c, whose binding POST succeeded, names its pod, hands the pods to the
\* kubelet and enqueues TASK_STARTING in the step
Starts(c) ==
    /\ cont[c].pc = "bound"
    /\ outgoing' = Append(outgoing,
                      newStatus(cont[c].id, "TASK_STARTING", "CreateBindingSuccess"))
    /\ GetPodFullName(cont[c].pod) \in kpods' /\ updateChan'.pods = kpods'

\* C28: a step enqueues TASK_RUNNING for a task only as the single status of a launch
\* continuation of that task, while the task id is on record; a continuation gets to
\* that report only from its poll, in a round that a phase other than Running does not
\* end; it gets to the poll only by the step that enqueues TASK_STARTING and pushes the
\* pod, after its binding POST succeeded; and after its report it only monitors and
\* ends, so each launch enqueues TASK_RUNNING at most once
C28_RunningOncePerLaunch ==
    /\ [][\A i \in 1..Len(Queued1) : Queued1[i].state = "TASK_RUNNING" =>
            /\ Len(Queued1) = 1
            /\ \E c \in ContIds : /\ ReportsRunning(c) /\ cont[c].id = Queued1[i].id
                                   /\ ktasks[cont[c].id].found]_vars
    /\ [][\A c \in ContIds : cont'[c].pc = "running" /\ cont[c].pc # "running" =>
            /\ cont[c].pc = "waitForRunningPod" /\ Stays(c, "notRunning")
            /\ ktasks[cont[c].id].found]_vars
    /\ [][\A c \in ContIds :
            cont'[c].pc = "waitForRunningPod" /\ cont[c].pc # "waitForRunningPod" =>
               Starts(c)]_vars
    /\ [][\A c \in ContIds : cont'[c].pc = "bound" /\ cont[c].pc # "bound" =>
            cont[c].pc = "launchTask"]_vars
    /\ [][\A c \in ContIds : cont[c].pc = "monitor" =>
            cont'[c].pc = "monitor" \/ cont'[c] = NoCont]_vars

\* two launches of task 1, the second after KillTask took the first off the table, have
\* both reported TASK_RUNNING and monitor the pod
C28_Witness ==
    /\ outgoing = <<newStatus(1, "TASK_RUNNING", "pod-running"),
                    newStatus(1, "TASK_RUNNING", "pod-running")>>
    /\ \A c \in ContIds : cont[c].pc = "monitor" /\ cont[c].id = 1
    /\ ktasks[1].found

\* ---- C29
\* KillTask, past its isDone and isConnected checks, takes the lock and returns
KillStep == kt.pc = "lock" /\ kt'.pc = "idle"

TaskKilled(id) == newStatus(id, "TASK_KILLED", "TaskKilled")

\* the record of task id and the pod it names are off the tables after the step
KillRemoves(id) ==
    /\ ktasks' = [ktasks EXCEPT ![id] = NoKuberTask]
    /\ kpods' = kpods \ {ktasks[id].podName}

\* the step sends the pods that remain to the kubelet
PushesRemaining == updateChan' = Push(kpods') /\ updateChan' # updateChan

ChecksDisconnected(call) ==
    /\ call.pc = "isConnected" /\ state # "connected"
    /\ lt' # lt \/ kt' # kt
    /\ call = lt => lt' # lt
    /\ call = kt => kt' # kt

\* a FrameworkMessage step with the executor not connected: no other callback, no
\* continuation and no connection change moves
MessageDisconnected ==
    /\ state # "connected"
    /\ UNCHANGED <<state, done, conn, lt, kt, sd, cont>>

TaskFailed(id) == newStatus(id, "TASK_FAILED", "ExecutorUnregistered")

\* the task and pod tables and the kubelet's pod set stay, and no launch starts
TablesStay == UNCHANGED <<ktasks, kpods, updateChan, cont>>

\* C30 as stated: disconnected, LaunchTask enqueues TASK_FAILED for the task and
\* nothing else happens; KillTask and FrameworkMessage change and enqueue nothing
C30_AsStated ==
    /\ [][ChecksDisconnected(lt) /\ kt' = kt =>
            TablesStay /\ outgoing' = Append(outgoing, TaskFailed(lt.id))]_vars
    /\ [][ChecksDisconnected(kt) /\ lt' = lt => TablesStay /\ UNCHANGED outgoing]_vars
    /\ [][MessageDisconnected => TablesStay /\ UNCHANGED outgoing]_vars

\* C30: a LaunchTask that finds the executor not connected at its isConnected check
\* returns with the task and pod tables and the kubelet's pod set unchanged and no
\* launch started, having enqueued TASK_FAILED for the task, or nothing when Shutdown
\* has closed done since the callback began; a KillTask that finds the executor not
\* connected returns with nothing changed and nothing enqueued; so does every
\* FrameworkMessage; a task on record stays on record
C30_DisconnectedIgnored ==
    /\ [][ChecksDisconnected(lt) /\ kt' = kt =>
            /\ TablesStay /\ lt' = IdleCall
            /\ outgoing' = IF done THEN outgoing
                           ELSE Append(outgoing, TaskFailed(lt.id))]_vars
    /\ [][ChecksDisconnected(kt) /\ lt' = lt =>
            TablesStay /\ kt' = IdleCall /\ UNCHANGED outgoing]_vars
    /\ [][MessageDisconnected => TablesStay /\ UNCHANGED outgoing]_vars

\* disconnected after task 1 was launched, the executor got LaunchTask for task 1 again:
\* TASK_FAILED is queued, the task and its pod are on the tables and the poll goes on
C30_Witness ==
    /\ state = "disconnected" /\ ~done
    /\ outgoing = <<newStatus(1, "TASK_STARTING", "CreateBindingSuccess"), TaskFailed(1)>>
    /\ ktasks[1] = [found |-> TRUE, podName |-> GetPodFullName("p1")]
    /\ kpods = {GetPodFullName("p1")}
    /\ \E c \in ContIds : cont[c].pc = "waitForRunningPod" /\ cont[c].id = 1

\* ---- C31
\* FrameworkMessage takes its task-lost branch for the message
TakesTaskLost(message) ==
    /\ HasPrefix(TaskLostPrefix, message) /\ Len(message) > 10
    /\ TaskIdOf(SubSeq(message, 11, Len(message))) \in TaskIds

\* a step of FrameworkMessage: no other callback, no continuation, no connection change
\* and no Shutdown moves
FrameworkMessageStep == UNCHANGED <<state, done, conn, lt, kt, sd, cont, pump, sent>>

\* C31: for every message string FrameworkMessage leaves the task table, the pod table,
\* the kubelet's pod set and the outgoing channel unchanged, because no message takes
\* the task-lost branch: strings.HasPrefix("task-lost:", message) holds only for a
\* message of at most 10 characters
C31_MessageChangesNothing ==
    /\ [][FrameworkMessageStep => UNCHANGED <<ktasks, kpods, updateChan, outgoing>>]_vars
    /\ [](\A message \in Messages : ~TakesTaskLost(message))

\* connected and not shut down, task 1 is on record with its pod running, the state in
\* which a message "task-lost:1" is meant to take the task off the tables
C31_Witness ==
    /\ state = "connected" /\ ~done
    /\ ktasks[1] = [found |-> TRUE, podName |-> GetPodFullName("p1")]
    /\ GetPodFullName("p1") \in kpods
    /\ \E c \in ContIds : cont[c].pc = "monitor" /\ cont[c].id = 1
    /\ TaskLostPrefix \o <<"1">> \in Messages

\* ---- C32
\* the loop is inside its lock-protected section: at Await, processing what Await
\* returned, or between Await and the unlock of Wait, or past the wait
Inside(loop) ==
    \/ pcOf(loop) \in {"await", "spawned", "spawnedT", "relocked", "relockedT"}
    \/ loop = "run" /\ run.pc = "popped"
    \/ loop = "yield" /\ sl.pc = "yielded"

\* the loop proceeds past the condition wait in the step
PastWait(loop) ==
    /\ pcOf(loop) \in {"spawnedT", "waitingT", "wokenT", "relocked", "relockedT"}
    /\ IF loop = "run" THEN run'.pc = "await" ELSE sl'.pc = "await"

\* C32: whenever the enqueue loop or yield proceeds past its condition wait, through
\* the timeout path or the signalled path, queuer.lock is held on behalf of that loop;
\* a loop inside its lock-protected section holds the lock, so the two loops are never
\* both inside
C32_LockHeldPastWait ==
    /\ [][\A loop \in Loops : PastWait(loop) => qlock = loop /\ qlock' = loop]_vars
    /\ [](\A loop \in Loops : Inside(loop) => qlock = loop)
    /\ [](~(Inside("run") /\ Inside("yield")))

\* the enqueue loop is past its wait by the timeout path, with the lock, while the
\* go-routine of yield, woken by a Broadcast, has to wait for the lock
C32_Witness ==
    /\ run.pc = "relockedT" /\ qlock = "run"
    /\ sl.pc = "woken"

\* ---- C33
\* driver.LaunchTasks succeeds in the step
Launches == launchOk' # launchOk

\* Bind for the pod of the scheduling loop gets as far as the offer validity check with
\* an offer that was launched with before
BindRefersToLaunched ==
    /\ BindRuns
    /\ BindRefusal(sl.name) = None
    /\ HasAcceptedOffer(getTask(taskForPod(sl.name)))
    /\ launchOk[getTask(taskForPod(sl.name)).offer] > 0

\* C33: driver.LaunchTasks succeeds at most once with an offer id, and at most once for
\* a task: it succeeds only for a task that is not Launched, which is Launched from then
\* on; a Bind that gets to the offer validity check with an offer that was launched with
\* fails there, with no LaunchTasks call
C33_LaunchedOnce ==
    /\ [](\A o \in OfferIds : launchOk[o] <= 1)
    /\ [][Launches => /\ ~getTask(taskForPod(sl.name)).launched
                      /\ tasks'[taskForPod(sl.name)].launched]_vars
    /\ [][\A t \in TaskIds : tasks[t].launched /\ tasks'[t] # NoTask =>
            tasks'[t].launched]_vars
    /\ [][BindRefersToLaunched =>
            /\ sl'.pc = "error" /\ sl'.err = "expiredOffer"
            /\ ~Launches]_vars

\* a second Bind for the launched pod p1 failed at the offer validity check: offer o2
\* was launched with once
C33_Witness ==
    /\ sl.pc = "error" /\ sl.err = "expiredOffer" /\ sl.from = "Bind" /\ sl.name = "p1"
    /\ launchOk["o2"] = 1
    /\ taskForPod("p1") # 0 /\ getTask(taskForPod("p1")).launched

\* a deferred decline for offer o is armed and has not run yet
DeclineDeferred(o) == \E t \in timers : t.id = o

\* C34: DeclineOffer is called at most once for an offer, whatever the interleaving of
\* the Delete calls of the ager and the driver, Invalidate, the claimants' Release and
\* the deferred declines: a deferred decline that runs after the offer was declined
\* declines nothing
C34_DeclinedOnce ==
    /\ [](\A o \in OfferIds : declined[o] <= 1)
    /\ [][\A t \in timers : declined[t.id] = 1 /\ t \notin timers' =>
            declined'[t.id] = 1]_vars

\* offer o2 was declined once by a Delete, after another Delete had found it claimed and
\* deferred its decline: that deferred decline is due
C34_Witness ==
    /\ declined["o2"] = 1
    /\ [id |-> "o2", left |-> 0] \in timers

\* kubeScheduler.Schedule returns an error in this step after placement acquired an offer
ScheduleFailsHolding(o) ==
    /\ sl.pc = "sched" /\ sl'.pc = "error" /\ sl'.from = "Schedule"
    /\ acquired[o] = 0 /\ acquired'[o] = 1

\* offer o is live and acquired, and no registered task has it as its accepted offer
Leaked(o) ==
    /\ Get(o) = "live" /\ acquired[o] = 1
    /\ \A t \in TaskIds : tasks[t] = NoTask \/ tasks[t].offer # o

BindOnLaunched ==
    /\ BindRuns
    /\ taskForPod(sl.name) # 0
    /\ getTask(taskForPod(sl.name)).launched

GoneStates == {"TASK_KILLED", "TASK_LOST"}

\* this step enqueues a status update that reports task i killed or lost
ReportsGone(i) ==
    /\ Len(outgoing') = Len(outgoing) + 1
    /\ outgoing'[Len(outgoing')].id = i
    /\ outgoing'[Len(outgoing')].state \in GoneStates

\* C37: TASK_KILLED or TASK_LOST is enqueued for a task only in a step that finds the
\* task's record in the table and removes it, and a step enqueues one status at most: so
\* at most one of the two is enqueued for a record, and the task is off the record once
\* it is enqueued, whether KillTask, a launch continuation (failed binding, expired
\* grace period) or the liveness check reports it
C37_GoneOncePerRecord ==
    /\ [][\A i \in TaskIds : ReportsGone(i) => ktasks[i].found /\ ~ktasks'[i].found]_vars
    /\ [][Len(outgoing') <= Len(outgoing) + 1]_vars

\* KillTask reported task 1 killed and removed its record while the task's launch
\* continuation is about to report it lost
C37_Witness ==
    /\ outgoing # <<>>
    /\ outgoing[Len(outgoing)].id = 1 /\ outgoing[Len(outgoing)].state = "TASK_KILLED"
    /\ ~ktasks[1].found
    /\ \E c \in ContIds : cont[c].id = 1 /\ cont[c].pc \in {"lost", "monitor"}

\* the records of the task table whose podName is n
RecordsOf(n) == {t \in TaskIds : ktasks[t].found /\ ktasks[t].podName = n}

\* every key of the pods table is the podName of exactly one task record
PodsHaveOneTask == \A n \in kpods : Cardinality(RecordsOf(n)) = 1

\* every task record that has a podName has its pod in the pods table
NamedTasksHavePod ==
    \A t \in TaskIds : ktasks[t].found /\ ktasks[t].podName # <<>> => ktasks[t].podName \in kpods

\* the pod set last pushed to the kubelet is the pods table
PushedIsPods == updateChan.pods = kpods

SendsOk(st) ==
    /\ pump.pc = "sender" /\ pump.sender.id = 1 /\ pump.sender.state = st
    /\ sent' # sent /\ sent'.result = "ok"

\* a status update of task 1 in state st is queued, not yet accepted by the driver
Pending(st) == \E i \in 1..Len(outgoing) : outgoing[i].id = 1 /\ outgoing[i].state = st

\* C39 as stated: the driver is not handed the TASK_RUNNING of a launch successfully
\* while the TASK_STARTING of that launch, enqueued before it, still waits to be sent
C39_AsStated == [][SendsOk("TASK_RUNNING") => ~Pending("TASK_STARTING")]_vars

\* sendLoop is blocked putting a failed send back: the outbox is full, done is open
RequeueBlocked == pump.pc = "requeue" /\ ~done /\ ~Room

\* a launch continuation holds the executor lock and is about to call sendStatus for a
\* task on record (TASK_STARTING in launchTask, TASK_RUNNING in _launchTask)
ProducerAtSend ==
    \E c \in ContIds : cont[c].pc \in {"bound", "running"} /\ ktasks[cont[c].id].found

\* C40 as stated: before shutdown there is no state in which sendLoop is blocked putting
\* a failed send back into the full outbox while a producer, holding the executor lock,
\* is blocked in sendStatus on the same outbox
C40_AsStated == ~(RequeueBlocked /\ ProducerAtSend)
====
